---- MODULE Spec2Model ----
(***************************************************************************)
(* Model of strands-agents-builder: the session directory store and the    *)
(* session lifecycle controller of src/strands_agents_builder/utils/      *)
(* session_utils.py.                                                       *)
(*                                                                         *)
(* Strings are sequences of one-character strings, so that prefix          *)
(* stripping, substring tests, suffixes, lengths and lexicographic order   *)
(* are computed and not assumed.  Python's None is the value NONE.         *)
(* The filesystem is the set of directories and the set of other files; a  *)
(* path is a sequence of components whose first component is the rendered  *)
(* base path, str(Path(base_path)).  clock is the second that              *)
(* time.strftime reports.                                                  *)
(***************************************************************************)
EXTENDS Integers, Sequences, FiniteSets, TLC

VARIABLES fs, call, environ, kb, repl, proc, mcp, clock

vars == <<fs, call, environ, kb, repl, proc, mcp, clock>>

(***************************************************************************)
(* Bounds of the model.                                                    *)
(***************************************************************************)
MaxEntries == 2
MaxMsgs == 2
MaxCalls == 2
MaxSources == 2
MaxLines == 3
MaxConfigs == 2

(***************************************************************************)
(* Strings.                                                                *)
(***************************************************************************)
NONE == <<"None">>

Rep(c, n) == [i \in 1..n |-> c]

\* Code points of the characters that occur, as Python compares them.
Ord(c) ==
    CASE c = "NUL" -> 0
      [] c = "-" -> 45
      [] c = "." -> 46
      [] c = "/" -> 47
      [] c = "0" -> 48
      [] c = "1" -> 49
      [] c = "7" -> 55
      [] c = "\\" -> 92
      [] c = "_" -> 95
      [] c = "a" -> 97
      [] c = "b" -> 98
      [] c = "c" -> 99
      [] c = "d" -> 100
      [] c = "e" -> 101
      [] c = "f" -> 102
      [] c = "g" -> 103
      [] c = "i" -> 105
      [] c = "j" -> 106
      [] c = "m" -> 109
      [] c = "n" -> 110
      [] c = "o" -> 111
      [] c = "r" -> 114
      [] c = "s" -> 115
      [] c = "t" -> 116
      [] c = "x" -> 120

\* Python's str.__lt__: the first differing code point decides, a proper
\* prefix is smaller.
StrLess(a, b) ==
    \E i \in 1..(Len(a) + 1) :
        /\ i <= Len(b)
        /\ \A j \in 1..(i - 1) : a[j] = b[j]
        /\ \/ i = Len(a) + 1
           \/ i <= Len(a) /\ Ord(a[i]) < Ord(b[i])

\* Python's `sub in s` for a non-empty sub.
Contains(s, sub) ==
    \E i \in 1..(Len(s) - Len(sub) + 1) : \A k \in 1..Len(sub) : s[i + k - 1] = sub[k]

StartsWith(s, pre) ==
    Len(s) >= Len(pre) /\ SubSeq(s, 1, Len(pre)) = pre

\* Python's `not x` for an Optional[str].
Falsy(x) == x = NONE \/ x = <<>>

(***************************************************************************)
(* Program constants.                                                      *)
(***************************************************************************)
SESSION_PREFIX == <<"s", "e", "s", "s", "i", "o", "n", "_">>
MAX_SESSION_ID_LEN == 255
MAX_PATH_LEN == 4096
SESSION_JSON == <<"s", "e", "s", "s", "i", "o", "n", ".", "j", "s", "o", "n">>
AGENTS == <<"a", "g", "e", "n", "t", "s">>
MESSAGES == <<"m", "e", "s", "s", "a", "g", "e", "s">>
JSON_SUFFIX == <<".", "j", "s", "o", "n">>

(***************************************************************************)
(* validate_session_id                                                     *)
(***************************************************************************)
validate_session_id_no_dotdot(session_id) ==
    IF Falsy(session_id) THEN FALSE
    ELSE IF \E pat \in {<<"/">>, <<"\\">>, <<"NUL">>} : Contains(session_id, pat)
         THEN FALSE
    ELSE IF session_id[1] = "." \/ Len(session_id) > MAX_SESSION_ID_LEN THEN FALSE
    ELSE TRUE

validate_session_id(session_id) ==
    IF Falsy(session_id) THEN FALSE
    ELSE IF \E pat \in {<<"/">>, <<"\\">>, <<".", ".">>, <<"NUL">>} :
                Contains(session_id, pat)
         THEN FALSE
    ELSE IF session_id[1] = "." \/ Len(session_id) > MAX_SESSION_ID_LEN THEN FALSE
    ELSE TRUE

(***************************************************************************)
(* str(Path(path)) on POSIX: repeated separators collapse, "." components  *)
(* and a trailing separator disappear, ".." stays; exactly two leading     *)
(* separators are kept, any other number of them is one; nothing left is   *)
(* ".".                                                                    *)
(***************************************************************************)
LoneDot(p, i) ==
    /\ p[i] = "."
    /\ i = 1 \/ p[i - 1] = "/"
    /\ i = Len(p) \/ p[i + 1] = "/"

Kept(p, i) == p[i] # "/" /\ ~LoneDot(p, i)

PartStart(p, i) == Kept(p, i) /\ (i = 1 \/ p[i - 1] = "/")

LeadingSeps(p) == Cardinality({i \in 1..Len(p) : \A j \in 1..i : p[j] = "/"})

PathRoot(p) ==
    IF LeadingSeps(p) = 0 THEN <<>>
    ELSE IF LeadingSeps(p) = 2 THEN <<"/", "/">>
    ELSE <<"/">>

PathStr(p) ==
    LET idx == [i \in 1..Len(p) |-> i]
        sel == SelectSeq(idx, LAMBDA i :
                   \/ Kept(p, i)
                   \/ /\ p[i] = "/"
                      /\ i < Len(p)
                      /\ PartStart(p, i + 1)
                      /\ \E j \in 1..(i - 1) : Kept(p, j))
        body == [k \in 1..Len(sel) |-> p[sel[k]]]
    IN  IF PathRoot(p) = <<>> /\ body = <<>> THEN <<".">>
        ELSE PathRoot(p) \o body

validate_session_path(path) ==
    IF Falsy(path) THEN FALSE
    ELSE Len(PathStr(path)) < MAX_PATH_LEN


(***************************************************************************)
(* Inputs.                                                                 *)
(***************************************************************************)
BASE_DIR == <<"/", "b">>

\* None, "", "/b", "/b/", "/b" followed by 4094 separators (4096 characters
\* that render as "/b"), and a single component of 4096 characters.
BasePaths ==
    { NONE, <<>>, BASE_DIR, BASE_DIR \o <<"/">>,
      BASE_DIR \o Rep("/", MAX_PATH_LEN - 2), Rep("a", MAX_PATH_LEN) }

\* None, "", valid ids, and one id for each way of being unsafe.
SessionIds ==
    { NONE, <<>>, <<"a">>, <<"b">>, <<"a", "b">>,
      <<".", "a">>, <<"a", "/", "b">>, <<"a", "\\", "b">>, <<"a", ".", ".", "b">>,
      <<"a", "NUL">>,
      Rep("a", MAX_SESSION_ID_LEN), Rep("a", MAX_SESSION_ID_LEN + 1) }

\* The rendering and the sanity of each base path, computed once.
RenderedPath == [b \in BasePaths \ {NONE} |-> PathStr(b)]
PathOK == [b \in BasePaths |-> validate_session_path(b)]

(***************************************************************************)
(* The filesystem: the set of directories and the set of other files.     *)
(* Path.exists, is_dir and is_file answer from it; iterdir and mkdir can   *)
(* raise OSError.                                                          *)
(***************************************************************************)
NO_PATH == <<>>

EmptyFs == [dirs |-> {}, files |-> {}]

Exists(F, p) == p \in F.dirs \/ p \in F.files
IsDir(F, p) == p \in F.dirs
IsFile(F, p) == p \in F.files

Children(F, d) ==
    {p \in F.dirs \cup F.files : Len(p) = Len(d) + 1 /\ SubSeq(p, 1, Len(d)) = d}

Name(p) == p[Len(p)]

\* Path.suffix: the part of the name from its last dot on, empty when the
\* last dot is the first or the last character of the name.
Suffix(name) ==
    LET dots == {i \in 1..Len(name) : name[i] = "."}
        last == CHOOSE i \in dots : \A j \in dots : j <= i
    IN  IF dots = {} THEN <<>>
        ELSE IF last = 1 \/ last = Len(name) THEN <<>>
        ELSE SubSeq(name, last, Len(name))

\* Path.mkdir(parents=True, exist_ok=True); denied: the OS refuses the creation.
Mkdir(F, p, denied) ==
    IF IsDir(F, p) THEN [raised |-> "none", fs |-> F]
    ELSE IF IsFile(F, p) THEN [raised |-> "FileExistsError", fs |-> F]
    ELSE IF denied THEN [raised |-> "PermissionError", fs |-> F]
    ELSE [raised |-> "none", fs |-> [F EXCEPT !.dirs = @ \cup {p}]]

Perms(S) ==
    {s \in [1..Cardinality(S) -> S] : \A i, j \in 1..Cardinality(S) : i # j => s[i] # s[j]}

(***************************************************************************)
(* sorted(session_ids)                                                     *)
(***************************************************************************)
RECURSIVE Insert(_, _)
Insert(x, s) ==
    IF s = <<>> THEN <<x>>
    ELSE IF StrLess(x, Head(s)) THEN <<x>> \o s
    ELSE <<Head(s)>> \o Insert(x, Tail(s))

RECURSIVE Sorted(_)
Sorted(s) == IF s = <<>> THEN <<>> ELSE Insert(Head(s), Sorted(Tail(s)))

(***************************************************************************)
(* generate_session_id                                                     *)
(***************************************************************************)
Timestamps == {17}
Uuids == { <<"0", "a", "1", "b", "0", "a", "1", "b">>,
           <<"7", "f", "0", "0", "a", "b", "c", "d">> }

Digit(d) ==
    CASE d = 0 -> "0" [] d = 1 -> "1" [] d = 2 -> "2" [] d = 3 -> "3" [] d = 4 -> "4"
      [] d = 5 -> "5" [] d = 6 -> "6" [] d = 7 -> "7" [] d = 8 -> "8" [] d = 9 -> "9"

RECURSIVE Decimal(_)
Decimal(n) == IF n < 10 THEN <<Digit(n)>> ELSE Decimal(n \div 10) \o <<Digit(n % 10)>>

generate_session_id(timestamp, short_uuid) ==
    <<"s", "t", "r", "a", "n", "d", "s", "-">> \o Decimal(timestamp) \o <<"-">> \o short_uuid

GeneratedIds == {generate_session_id(t, u) : t \in Timestamps, u \in Uuids}


(***************************************************************************)
(* The operations.  Each takes the filesystem F and the choices the        *)
(* environment makes during the call, and returns what the call returns    *)
(* (ret), the exception that leaves it (raised), the filesystem it leaves  *)
(* (fs) and the filesystem accesses it made, in order (trace).             *)
(***************************************************************************)
AbsentManager == [present |-> FALSE, session_id |-> NONE]

\* FileSessionManager(session_id=..., storage_dir=...), the SDK's backend.
\* reported: the id the handle reports; persist: whether the constructor
\* writes the session directory and its marker when the directory is missing.
FileSessionManager(session_id, storage_dir, F, reported, persist) ==
    LET session_dir == Append(storage_dir, SESSION_PREFIX \o session_id)
    IN  [ ret |-> [present |-> TRUE, session_id |-> reported],
          fs |-> IF persist /\ ~Exists(F, session_dir)
                 THEN [ dirs |-> F.dirs \cup {session_dir},
                        files |-> F.files \cup {Append(session_dir, SESSION_JSON)} ]
                 ELSE F ]

get_sessions_directory(base_path, create, F, denied) ==
    IF Falsy(base_path)
    THEN [ret |-> NO_PATH, raised |-> "none", fs |-> F, trace |-> <<>>]
    ELSE LET sessions_dir == <<RenderedPath[base_path]>>
         IN  IF create
             THEN LET m == Mkdir(F, sessions_dir, denied)
                  IN  [ ret |-> IF m.raised = "none" THEN sessions_dir ELSE NO_PATH,
                        raised |-> m.raised, fs |-> m.fs,
                        trace |-> <<<<"mkdir", sessions_dir>>>> ]
             ELSE [ret |-> sessions_dir, raised |-> "none", fs |-> F, trace |-> <<>>]

create_session_manager_unchecked(session_id, base_path, F, denied, generated, reported, persist) ==
    IF Falsy(base_path) \/ ~PathOK[base_path]
    THEN [ret |-> AbsentManager, raised |-> "none", fs |-> F, trace |-> <<>>, ctor |-> <<>>]
    ELSE LET sid == IF session_id = NONE THEN generated ELSE session_id
             d == get_sessions_directory(base_path, TRUE, F, denied)
         IN  IF d.raised # "none"
             THEN [ ret |-> AbsentManager, raised |-> d.raised, fs |-> d.fs,
                    trace |-> d.trace, ctor |-> <<>> ]
             ELSE LET m == FileSessionManager(sid, d.ret, d.fs,
                                              IF reported = NONE THEN sid ELSE reported,
                                              persist)
                  IN  [ ret |-> m.ret, raised |-> "none", fs |-> m.fs,
                        trace |-> d.trace, ctor |-> <<<<sid, d.ret>>>> ]

create_session_manager(session_id, base_path, F, denied, generated, reported, persist) ==
    IF Falsy(base_path) \/ ~PathOK[base_path]
    THEN [ret |-> AbsentManager, raised |-> "none", fs |-> F, trace |-> <<>>, ctor |-> <<>>]
    ELSE IF session_id # NONE /\ ~validate_session_id(session_id)
    THEN [ret |-> AbsentManager, raised |-> "none", fs |-> F, trace |-> <<>>, ctor |-> <<>>]
    ELSE LET sid == IF session_id = NONE THEN generated ELSE session_id
             d == get_sessions_directory(base_path, TRUE, F, denied)
         IN  IF d.raised # "none"
             THEN [ ret |-> AbsentManager, raised |-> d.raised, fs |-> d.fs,
                    trace |-> d.trace, ctor |-> <<>> ]
             ELSE LET m == FileSessionManager(sid, d.ret, d.fs,
                                              IF reported = NONE THEN sid ELSE reported,
                                              persist)
                  IN  [ ret |-> m.ret, raised |-> "none", fs |-> m.fs,
                        trace |-> d.trace, ctor |-> <<<<sid, d.ret>>>> ]

session_exists_dir_only(session_id, base_path, F) ==
    IF Falsy(base_path) \/ ~PathOK[base_path] \/ ~validate_session_id(session_id)
    THEN [ret |-> FALSE, trace |-> <<>>]
    ELSE LET d == get_sessions_directory(base_path, FALSE, F, FALSE)
             session_dir == Append(d.ret, SESSION_PREFIX \o session_id)
         IN  [ret |-> Exists(F, session_dir), trace |-> <<<<"exists", session_dir>>>>]

session_exists(session_id, base_path, F) ==
    IF Falsy(base_path) \/ ~PathOK[base_path] \/ ~validate_session_id(session_id)
    THEN [ret |-> FALSE, trace |-> <<>>]
    ELSE LET d == get_sessions_directory(base_path, FALSE, F, FALSE)
             session_dir == Append(d.ret, SESSION_PREFIX \o session_id)
             marker == Append(session_dir, SESSION_JSON)
         IN  IF d.ret = NO_PATH THEN [ret |-> FALSE, trace |-> <<>>]
             ELSE IF ~Exists(F, session_dir)
             THEN [ret |-> FALSE, trace |-> <<<<"exists", session_dir>>>>]
             ELSE [ ret |-> Exists(F, marker),
                    trace |-> <<<<"exists", session_dir>>, <<"exists", marker>>>> ]


(***************************************************************************)
(* list_available_sessions.  order: the order in which iterdir yields the  *)
(* entries; fail: 0 for no error, 1 when iterdir raises OSError, k + 1     *)
(* when is_dir raises OSError on the k-th entry.                           *)
(***************************************************************************)
RECURSIVE ScanFrom_forget(_, _, _, _)
ScanFrom_forget(F, order, fail, i) ==
    IF i > Len(order) THEN [ids |-> <<>>, failed |-> FALSE, trace |-> <<>>]
    ELSE IF fail = i + 1
    THEN [ids |-> <<>>, failed |-> TRUE, trace |-> <<<<"is_dir", order[i]>>>>]
    ELSE LET rest == ScanFrom_forget(F, order, fail, i + 1)
             name == Name(order[i])
             session_id == SubSeq(name, Len(SESSION_PREFIX) + 1, Len(name))
             take == /\ IsDir(F, order[i])
                     /\ StartsWith(name, SESSION_PREFIX)
                     /\ validate_session_id(session_id)
         IN  [ ids |-> IF rest.failed THEN <<>>
                       ELSE (IF take THEN <<session_id>> ELSE <<>>) \o rest.ids,
               failed |-> rest.failed,
               trace |-> <<<<"is_dir", order[i]>>>> \o rest.trace ]

RECURSIVE ScanFrom(_, _, _, _)
ScanFrom(F, order, fail, i) ==
    IF i > Len(order) THEN [ids |-> <<>>, failed |-> FALSE, trace |-> <<>>]
    ELSE IF fail = i + 1
    THEN [ids |-> <<>>, failed |-> TRUE, trace |-> <<<<"is_dir", order[i]>>>>]
    ELSE LET rest == ScanFrom(F, order, fail, i + 1)
             name == Name(order[i])
             session_id == SubSeq(name, Len(SESSION_PREFIX) + 1, Len(name))
             take == /\ IsDir(F, order[i])
                     /\ StartsWith(name, SESSION_PREFIX)
                     /\ validate_session_id(session_id)
         IN  [ ids |-> (IF take THEN <<session_id>> ELSE <<>>) \o rest.ids,
               failed |-> rest.failed,
               trace |-> <<<<"is_dir", order[i]>>>> \o rest.trace ]

list_available_sessions_unsorted(base_path, F, order, fail) ==
    IF Falsy(base_path) \/ ~PathOK[base_path]
    THEN [ret |-> <<>>, raised |-> "none", logged |-> FALSE, trace |-> <<>>]
    ELSE LET sessions_dir == get_sessions_directory(base_path, FALSE, F, FALSE).ret
         IN  IF sessions_dir = NO_PATH \/ ~Exists(F, sessions_dir)
             THEN [ ret |-> <<>>, raised |-> "none", logged |-> FALSE,
                    trace |-> <<<<"exists", sessions_dir>>>> ]
             ELSE IF IsFile(F, sessions_dir) \/ fail = 1
             THEN [ ret |-> <<>>, raised |-> "none", logged |-> TRUE,
                    trace |-> <<<<"exists", sessions_dir>>, <<"iterdir", sessions_dir>>>> ]
             ELSE LET sc == ScanFrom(F, order, fail, 1)
                  IN  [ ret |-> sc.ids, raised |-> "none", logged |-> sc.failed,
                        trace |-> <<<<"exists", sessions_dir>>, <<"iterdir", sessions_dir>>>>
                                  \o sc.trace ]

list_available_sessions(base_path, F, order, fail) ==
    IF Falsy(base_path) \/ ~PathOK[base_path]
    THEN [ret |-> <<>>, raised |-> "none", logged |-> FALSE, trace |-> <<>>]
    ELSE LET sessions_dir == get_sessions_directory(base_path, FALSE, F, FALSE).ret
         IN  IF sessions_dir = NO_PATH \/ ~Exists(F, sessions_dir)
             THEN [ ret |-> Sorted(<<>>), raised |-> "none", logged |-> FALSE,
                    trace |-> <<<<"exists", sessions_dir>>>> ]
             ELSE IF IsFile(F, sessions_dir) \/ fail = 1
             THEN [ ret |-> Sorted(<<>>), raised |-> "none", logged |-> TRUE,
                    trace |-> <<<<"exists", sessions_dir>>, <<"iterdir", sessions_dir>>>> ]
             ELSE LET sc == ScanFrom(F, order, fail, 1)
                  IN  [ ret |-> Sorted(sc.ids), raised |-> "none", logged |-> sc.failed,
                        trace |-> <<<<"exists", sessions_dir>>, <<"iterdir", sessions_dir>>>>
                                  \o sc.trace ]

(***************************************************************************)
(* get_session_info.  fail: the OS raises OSError on an access of the      *)
(* walk.  created_at (st_ctime) is not modelled.                           *)
(***************************************************************************)
AbsentInfo ==
    [present |-> FALSE, session_id |-> NONE, total_messages |-> 0, path |-> NO_PATH]

RECURSIVE SumOver(_, _)
SumOver(f, S) ==
    IF S = {} THEN 0
    ELSE LET x == CHOOSE y \in S : TRUE IN f[x] + SumOver(f, S \ {x})

CountMessages_any_file(F, messages_dir) ==
    Cardinality({f \in Children(F, messages_dir) : IsFile(F, f)})

CountMessages(F, messages_dir) ==
    Cardinality({f \in Children(F, messages_dir) :
                    IsFile(F, f) /\ Suffix(Name(f)) = JSON_SUFFIX})

get_session_info(session_id, base_path, F, fail) ==
    IF Falsy(base_path) \/ ~PathOK[base_path] \/ ~validate_session_id(session_id)
    THEN [ret |-> AbsentInfo, logged |-> FALSE, trace |-> <<>>]
    ELSE LET e == session_exists(session_id, base_path, F)
             sessions_dir == get_sessions_directory(base_path, FALSE, F, FALSE).ret
             session_dir == Append(sessions_dir, SESSION_PREFIX \o session_id)
             agents_dir == Append(session_dir, AGENTS)
             agent_dirs == {a \in Children(F, agents_dir) : IsDir(F, a)}
             messages_dirs == {m \in {Append(a, MESSAGES) : a \in agent_dirs} : Exists(F, m)}
             walk == e.trace \o <<<<"stat", session_dir>>>>
         IN  IF ~e.ret \/ sessions_dir = NO_PATH
             THEN [ret |-> AbsentInfo, logged |-> FALSE, trace |-> e.trace]
             ELSE IF fail
             THEN [ret |-> AbsentInfo, logged |-> TRUE, trace |-> walk]
             ELSE IF ~Exists(F, agents_dir)
             THEN [ ret |-> [ present |-> TRUE, session_id |-> session_id,
                              total_messages |-> 0, path |-> session_dir ],
                    logged |-> FALSE, trace |-> walk ]
             ELSE IF IsFile(F, agents_dir) \/ \E m \in messages_dirs : IsFile(F, m)
             THEN [ret |-> AbsentInfo, logged |-> TRUE, trace |-> walk]
             ELSE [ ret |-> [ present |-> TRUE, session_id |-> session_id,
                              total_messages |->
                                  SumOver([m \in messages_dirs |-> CountMessages(F, m)],
                                          messages_dirs),
                              path |-> session_dir ],
                    logged |-> FALSE, trace |-> walk ]

(***************************************************************************)
(* setup_session_management                                                *)
(***************************************************************************)
NoSetup == [manager |-> AbsentManager, session_id |-> NONE, is_resuming |-> FALSE]

setup_session_management_always_resume(session_id, session_base_path, F, denied, generated, reported, persist) ==
    IF Falsy(session_base_path)
    THEN [ ret |-> NoSetup, raised |-> "none", fs |-> F, trace |-> <<>>,
           sx |-> <<>>, csm |-> <<>>, ctor |-> <<>> ]
    ELSE LET e == IF ~Falsy(session_id)
                  THEN session_exists(session_id, session_base_path, F)
                  ELSE [ret |-> FALSE, trace |-> <<>>]
             resolved_session_id == IF ~Falsy(session_id) THEN session_id ELSE NONE
             is_resuming == ~Falsy(session_id)
             c == create_session_manager(resolved_session_id, session_base_path, F,
                                         denied, generated, reported, persist)
             sx == IF ~Falsy(session_id) THEN <<<<session_id, session_base_path>>>> ELSE <<>>
         IN  [ ret |-> IF c.raised # "none" THEN NoSetup
                       ELSE [ manager |-> c.ret,
                              session_id |-> IF c.ret.present THEN c.ret.session_id
                                             ELSE resolved_session_id,
                              is_resuming |-> is_resuming ],
               raised |-> c.raised, fs |-> c.fs, trace |-> e.trace \o c.trace,
               sx |-> sx, csm |-> <<<<resolved_session_id, session_base_path>>>>,
               ctor |-> c.ctor ]


setup_session_management_none_check(session_id, session_base_path, F, denied, generated, reported, persist) ==
    IF session_base_path = NONE
    THEN [ ret |-> NoSetup, raised |-> "none", fs |-> F, trace |-> <<>>,
           sx |-> <<>>, csm |-> <<>>, ctor |-> <<>> ]
    ELSE LET e == IF ~Falsy(session_id)
                  THEN session_exists(session_id, session_base_path, F)
                  ELSE [ret |-> FALSE, trace |-> <<>>]
             resolved_session_id == IF ~Falsy(session_id) THEN session_id ELSE NONE
             is_resuming == ~Falsy(session_id) /\ e.ret
             c == create_session_manager(resolved_session_id, session_base_path, F,
                                         denied, generated, reported, persist)
             sx == IF ~Falsy(session_id) THEN <<<<session_id, session_base_path>>>> ELSE <<>>
         IN  [ ret |-> IF c.raised # "none" THEN NoSetup
                       ELSE [ manager |-> c.ret,
                              session_id |-> IF c.ret.present THEN c.ret.session_id
                                             ELSE resolved_session_id,
                              is_resuming |-> is_resuming ],
               raised |-> c.raised, fs |-> c.fs, trace |-> e.trace \o c.trace,
               sx |-> sx, csm |-> <<<<resolved_session_id, session_base_path>>>>,
               ctor |-> c.ctor ]


setup_session_management_keep_requested(session_id, session_base_path, F, denied, generated, reported, persist) ==
    IF Falsy(session_base_path)
    THEN [ ret |-> NoSetup, raised |-> "none", fs |-> F, trace |-> <<>>,
           sx |-> <<>>, csm |-> <<>>, ctor |-> <<>> ]
    ELSE LET e == IF ~Falsy(session_id)
                  THEN session_exists(session_id, session_base_path, F)
                  ELSE [ret |-> FALSE, trace |-> <<>>]
             resolved_session_id == IF ~Falsy(session_id) THEN session_id ELSE NONE
             is_resuming == ~Falsy(session_id) /\ e.ret
             c == create_session_manager(resolved_session_id, session_base_path, F,
                                         denied, generated, reported, persist)
             sx == IF ~Falsy(session_id) THEN <<<<session_id, session_base_path>>>> ELSE <<>>
         IN  [ ret |-> IF c.raised # "none" THEN NoSetup
                       ELSE [ manager |-> c.ret,
                              session_id |-> resolved_session_id,
                              is_resuming |-> is_resuming ],
               raised |-> c.raised, fs |-> c.fs, trace |-> e.trace \o c.trace,
               sx |-> sx, csm |-> <<<<resolved_session_id, session_base_path>>>>,
               ctor |-> c.ctor ]


\* The triple setup_session_management returns, from the result e of its
\* session_exists call (when it makes one) and the result c of its
\* create_session_manager call.
SetupResult(session_id, session_base_path, resolved_session_id, e, c) ==
    [ ret |-> IF c.raised # "none" THEN NoSetup
              ELSE [ manager |-> c.ret,
                     session_id |-> IF c.ret.present THEN c.ret.session_id
                                    ELSE resolved_session_id,
                     is_resuming |-> ~Falsy(session_id) /\ e.ret ],
      raised |-> c.raised, fs |-> c.fs, trace |-> e.trace \o c.trace,
      sx |-> IF ~Falsy(session_id) THEN <<<<session_id, session_base_path>>>> ELSE <<>>,
      csm |-> <<<<resolved_session_id, session_base_path>>>>,
      ctor |-> c.ctor ]

setup_session_management(session_id, session_base_path, F, denied, generated, reported, persist) ==
    IF Falsy(session_base_path)
    THEN [ ret |-> NoSetup, raised |-> "none", fs |-> F, trace |-> <<>>,
           sx |-> <<>>, csm |-> <<>>, ctor |-> <<>> ]
    ELSE LET resolved_session_id == IF ~Falsy(session_id) THEN session_id ELSE NONE
         IN  SetupResult(session_id, session_base_path, resolved_session_id,
                         IF ~Falsy(session_id)
                         THEN session_exists(session_id, session_base_path, F)
                         ELSE [ret |-> FALSE, trace |-> <<>>],
                         create_session_manager(resolved_session_id, session_base_path, F,
                                                denied, generated, reported, persist))


(***************************************************************************)
(* tools/store_in_kb.py.  store_in_kb validates its arguments and starts   *)
(* a daemon thread running _store_in_kb_background; the thread talks to    *)
(* the knowledge store through a boto3 client.  A thread is a record of    *)
(* the worker's arguments, its position (pc), its local variables, the     *)
(* number of ingestion calls it has issued, the levels of the log records  *)
(* it has written, the call in which an exception was raised (raisedAt),   *)
(* how the thread's target ended, the number of get_data_source calls it   *)
(* has made (lookups), the first data source reported as CUSTOM (custom)   *)
(* and the data source of its ingestion request (target); daemon is the    *)
(* flag the thread is created with, doc_title the title the worker gives   *)
(* the document and request the knowledge base and the title of the        *)
(* ingestion request it has sent.                                          *)
(***************************************************************************)
WHITESPACE == {" ", "\t", "\n"}

RECURSIVE LStrip(_)
LStrip(s) == IF s # <<>> /\ Head(s) \in WHITESPACE THEN LStrip(Tail(s)) ELSE s

RECURSIVE RStrip(_)
RStrip(s) ==
    IF s # <<>> /\ s[Len(s)] \in WHITESPACE THEN RStrip(SubSeq(s, 1, Len(s) - 1)) ELSE s

\* str.strip()
Strip(s) == RStrip(LStrip(s))

\* Python's `a or b`.
Or(a, b) == IF Falsy(a) THEN b ELSE a

EMPTY_CONTENT == "Content cannot be empty"
NO_KB_ID == "No knowledge base ID provided or found in environment variables STRANDS_KNOWLEDGE_BASE_ID"

\* f"Strands Memory {time.strftime('%Y%m%d_%H%M%S')}"
DefaultTitle(now) == <<"S", "t", "r", "a", "n", "d", "s", " ", "M", "e", "m", "o", "r", "y", " ">> \o Decimal(now)

ErrorResult(text) == [status |-> "error", content |-> <<text>>]

\* The knowledge base and the title of an ingestion request.
IngestRequest(kb_id, doc_title) == [knowledgeBaseId |-> kb_id, title |-> doc_title]

NoRequest == IngestRequest(NONE, NONE)

NewThread(content, title, knowledge_base_id) ==
    [ content |-> content, title |-> title, knowledge_base_id |-> knowledge_base_id,
      pc |-> "new", kb_id |-> NONE, summaries |-> <<>>, i |-> 0,
      data_source_id |-> NONE, source_type |-> NONE, ingests |-> 0, log |-> <<>>,
      raisedAt |-> "none", ended |-> "running", lookups |-> 0, custom |-> NONE,
      target |-> NONE, daemon |-> TRUE, doc_title |-> NONE, request |-> NoRequest ]

\* The thread's target has returned: its local variables are gone.
Finished(t, level) ==
    [ t EXCEPT !.pc = "done", !.kb_id = NONE, !.summaries = <<>>, !.i = 0,
               !.data_source_id = NONE, !.source_type = NONE, !.doc_title = NONE,
               !.log = Append(@, level), !.ended = "normal" ]

\* Without the try statement the exception ends the thread's target.
Uncaught(t, at) ==
    [ t EXCEPT !.pc = "done", !.kb_id = NONE, !.summaries = <<>>, !.i = 0,
               !.data_source_id = NONE, !.source_type = NONE, !.doc_title = NONE,
               !.raisedAt = at, !.ended = "escaped" ]

\* A handler that tries the ingestion again after a failure.
Retried(t, at) ==
    IF at = "ingest_knowledge_base_documents" /\ t.ingests < 2
    THEN [t EXCEPT !.pc = "ingest"]
    ELSE Finished([t EXCEPT !.raisedAt = at], "error")

\* except Exception as e: logger.error(...)
Caught(t, at) == Finished([t EXCEPT !.raisedAt = at], "error")

\* A worker that ingests into the data source it fell back to, whatever
\* its type.
Prepare_any_type(t) ==
    IF Falsy(t.data_source_id) THEN Finished(t, "error")
    ELSE [t EXCEPT !.pc = "ingest", !.target = t.data_source_id]

\* Lines 87-118: the choice between ingesting and giving up.
Prepare(t) ==
    IF Falsy(t.data_source_id) THEN Finished(t, "error")
    ELSE IF t.source_type = "CUSTOM"
    THEN [t EXCEPT !.pc = "ingest", !.target = t.data_source_id]
    ELSE Finished(t, "error")

\* Lines 80-85: after the loop over the data sources.
AfterScan(t) ==
    IF Falsy(t.data_source_id) /\ t.summaries # <<>>
    THEN [t EXCEPT !.pc = "fallback", !.data_source_id = t.summaries[1]]
    ELSE Prepare(t)

(***************************************************************************)
(* One step of _store_in_kb_background: from the thread's position up to   *)
(* and including its next call of the client library.  getenv is the       *)
(* value of STRANDS_KNOWLEDGE_BASE_ID and now the time when the thread     *)
(* takes the step; reply is what that call does:                           *)
(* raise an exception, or return a response (for list_data_sources the     *)
(* sequence ids of data source ids, or a response without the key          *)
(* dataSourceSummaries; for get_data_source the type of the data source,   *)
(* or a response without it).                                              *)
(***************************************************************************)
Reply(raise, nokey, ids, type) == [raise |-> raise, nokey |-> nokey, ids |-> ids, type |-> type]

_store_in_kb_background(t, getenv, now, reply) ==
    CASE t.pc = "new" ->
            LET kb_id == Or(t.knowledge_base_id, getenv)
            IN  IF Falsy(kb_id) THEN Finished(t, "debug")
                ELSE IF Falsy(t.content) \/ Strip(t.content) = <<>>
                THEN Finished(t, "debug")
                ELSE [ t EXCEPT !.pc = "client", !.kb_id = kb_id,
                                !.doc_title = Or(t.title, DefaultTitle(now)) ]
      [] t.pc = "client" ->
            IF reply.raise THEN Caught(t, "client") ELSE [t EXCEPT !.pc = "list"]
      [] t.pc = "list" ->
            IF reply.raise THEN Caught(t, "list_data_sources")
            ELSE IF reply.nokey \/ reply.ids = <<>> THEN Finished(t, "error")
            ELSE [t EXCEPT !.pc = "scan", !.summaries = reply.ids, !.i = 1]
      [] t.pc = "scan" ->
            IF reply.raise \/ reply.nokey
            THEN Caught([t EXCEPT !.lookups = @ + 1], "get_data_source")
            ELSE IF reply.type = "CUSTOM"
            THEN AfterScan([ t EXCEPT !.data_source_id = t.summaries[t.i],
                                      !.source_type = "CUSTOM",
                                      !.log = Append(@, "debug"),
                                      !.lookups = @ + 1, !.custom = t.summaries[t.i] ])
            ELSE IF t.i < Len(t.summaries) THEN [t EXCEPT !.i = @ + 1, !.lookups = @ + 1]
            ELSE AfterScan([t EXCEPT !.lookups = @ + 1])
      [] t.pc = "fallback" ->
            IF reply.raise \/ reply.nokey
            THEN Caught([t EXCEPT !.lookups = @ + 1], "get_data_source")
            ELSE Prepare([ t EXCEPT !.source_type = reply.type, !.log = Append(@, "debug"),
                                    !.lookups = @ + 1,
                                    !.custom = IF reply.type = "CUSTOM"
                                               THEN t.data_source_id ELSE @ ])
      [] t.pc = "ingest" ->
            IF reply.raise
            THEN Caught([ t EXCEPT !.ingests = @ + 1,
                                   !.request = IngestRequest(t.kb_id, t.doc_title) ],
                        "ingest_knowledge_base_documents")
            ELSE Finished([ t EXCEPT !.ingests = @ + 1,
                                     !.request = IngestRequest(t.kb_id, t.doc_title) ],
                          "info")

(***************************************************************************)
(* store_in_kb(content, title, knowledge_base_id), called in the process   *)
(* state K (the environment variable and the threads) at time now: the     *)
(* result it returns and the threads after the call.                       *)
(***************************************************************************)
store_in_kb_no_trim(content, title, knowledge_base_id, K, now) ==
    IF Falsy(content)
    THEN [ret |-> ErrorResult(EMPTY_CONTENT), threads |-> K.threads]
    ELSE IF Falsy(Or(knowledge_base_id, K.getenv))
    THEN [ret |-> ErrorResult(NO_KB_ID), threads |-> K.threads]
    ELSE [ ret |-> [ status |-> "success",
                     content |-> << "Started background task", Or(title, DefaultTitle(now)),
                                    Or(knowledge_base_id, K.getenv),
                                    "Processing in background" >> ],
           threads |-> Append(K.threads, NewThread(content, title, knowledge_base_id)) ]

\* A store_in_kb that reports on the workers started before.
store_in_kb_reads_workers(content, title, knowledge_base_id, K, now) ==
    IF Falsy(content) \/ Strip(content) = <<>>
    THEN [ret |-> ErrorResult(EMPTY_CONTENT), threads |-> K.threads]
    ELSE IF Falsy(Or(knowledge_base_id, K.getenv))
    THEN [ret |-> ErrorResult(NO_KB_ID), threads |-> K.threads]
    ELSE [ ret |-> [ status |-> IF \E j \in 1..Len(K.threads) :
                                       K.threads[j].raisedAt # "none"
                                THEN "error" ELSE "success",
                     content |-> << "Started background task", Or(title, DefaultTitle(now)),
                                    Or(knowledge_base_id, K.getenv),
                                    "Processing in background" >> ],
           threads |-> Append(K.threads, NewThread(content, title, knowledge_base_id)) ]

\* A store_in_kb whose thread is not a daemon.
store_in_kb_not_daemon(content, title, knowledge_base_id, K, now) ==
    IF Falsy(content) \/ Strip(content) = <<>>
    THEN [ret |-> ErrorResult(EMPTY_CONTENT), threads |-> K.threads]
    ELSE IF Falsy(Or(knowledge_base_id, K.getenv))
    THEN [ret |-> ErrorResult(NO_KB_ID), threads |-> K.threads]
    ELSE [ ret |-> [ status |-> "success",
                     content |-> << "Started background task", Or(title, DefaultTitle(now)),
                                    Or(knowledge_base_id, K.getenv),
                                    "Processing in background" >> ],
           threads |-> Append(K.threads,
                              [ NewThread(content, title, knowledge_base_id)
                                    EXCEPT !.daemon = FALSE ]) ]

store_in_kb(content, title, knowledge_base_id, K, now) ==
    IF Falsy(content) \/ Strip(content) = <<>>
    THEN [ret |-> ErrorResult(EMPTY_CONTENT), threads |-> K.threads]
    ELSE IF Falsy(Or(knowledge_base_id, K.getenv))
    THEN [ret |-> ErrorResult(NO_KB_ID), threads |-> K.threads]
    ELSE [ ret |-> [ status |-> "success",
                     content |-> << "Started background task", Or(title, DefaultTitle(now)),
                                    Or(knowledge_base_id, K.getenv),
                                    "Processing in background" >> ],
           threads |-> Append(K.threads, NewThread(content, title, knowledge_base_id)) ]

(***************************************************************************)
(* utils/kb_utils.py: store_conversation_in_kb(agent, user_input,          *)
(* response, knowledge_base_id) passes the exchange to the store_in_kb     *)
(* tool; without a knowledge-base id it does nothing.                      *)
(***************************************************************************)
USER_LABEL == <<"U", "s", "e", "r", ":", " ">>
ASSISTANT_LABEL == <<"\n", "\n", "A", "s", "s", "i", "s", "t", "a", "n", "t", ":", " ">>
CONVERSATION_LABEL ==
    <<"C", "o", "n", "v", "e", "r", "s", "a", "t", "i", "o", "n", ":", " ">>

store_conversation_in_kb(user_input, response, knowledge_base_id, K, now) ==
    IF Falsy(knowledge_base_id)
    THEN [ret |-> ErrorResult(NO_KB_ID), threads |-> K.threads]
    ELSE store_in_kb(USER_LABEL \o user_input \o ASSISTANT_LABEL \o response,
                     CONVERSATION_LABEL \o user_input, knowledge_base_id, K, now)

(***************************************************************************)
(* strands.py: the interactive loop, and handle_session_commands of        *)
(* session_utils.py.  R is the state of execute_interactive_mode: its      *)
(* arguments (cfg), the lines read, the queries passed to the agent, the   *)
(* commands passed to the shell tool, the calls of the retrieve tool and   *)
(* of store_conversation_in_kb, the calls of handle_session_commands with  *)
(* their results, what was printed for them, the numbers of goodbye        *)
(* messages rendered, error messages printed and                           *)
(* callback_handler(force_stop=True) calls, the agent's system prompt, and *)
(* for the turn in progress (last) the calls made in it, in order (steps), *)
(* with what the welcome tool and load_system_prompt returned in it.       *)
(***************************************************************************)
EXIT == <<"e", "x", "i", "t">>
QUIT == <<"q", "u", "i", "t">>
BANG == "!"
SESSION_INFO == <<"s", "e", "s", "s", "i", "o", "n", " ", "i", "n", "f", "o">>
SESSION_LIST == <<"s", "e", "s", "s", "i", "o", "n", " ", "l", "i", "s", "t">>
SESSION_SPACE == <<"s", "e", "s", "s", "i", "o", "n", " ">>

\* str.lower(), on the letters of the inputs.
LowerChar(c) ==
    CASE c = "E" -> "e" [] c = "X" -> "x" [] c = "I" -> "i" [] c = "T" -> "t"
      [] c = "Q" -> "q" [] c = "U" -> "u" [] OTHER -> c

Lower(s) == [i \in 1..Len(s) |-> LowerChar(s[i])]

Printed(text, id, current) == [text |-> text, id |-> id, current |-> current]

\* The lines handle_session_commands prints for the sessions of a listing.
RECURSIVE ListingLines(_, _, _, _)
ListingLines(sessions, session_id, session_base_path, F) ==
    IF sessions = <<>> THEN <<>>
    ELSE (IF get_session_info(Head(sessions), session_base_path, F, FALSE).ret.present
          THEN <<Printed("session", Head(sessions), Head(sessions) = session_id)>>
          ELSE <<>>)
         \o ListingLines(Tail(sessions), session_id, session_base_path, F)

SessionInfoLines(info) ==
    IF info.present
    THEN << Printed("Session ID:", info.session_id, FALSE), Printed("Created:", NONE, FALSE),
            Printed("Total messages:", NONE, FALSE) >>
    ELSE <<>>

SessionListLines(sessions, session_id, session_base_path, F) ==
    IF sessions = <<>> THEN <<Printed("No sessions found.", NONE, FALSE)>>
    ELSE <<Printed("Available sessions:", NONE, FALSE)>>
         \o ListingLines(sessions, session_id, session_base_path, F)

\* The order in which iterdir yields the entries of the base directory.
ListingOrder(session_base_path, F) ==
    CHOOSE order \in Perms(IF PathOK[session_base_path]
                           THEN Children(F, <<RenderedPath[session_base_path]>>) ELSE {}) : TRUE

handle_session_commands_exact(command, session_id, session_base_path, F) ==
    IF command = SESSION_INFO /\ ~Falsy(session_id)
    THEN [ ret |-> TRUE,
           out |-> SessionInfoLines(get_session_info(session_id, session_base_path, F, FALSE).ret) ]
    ELSE IF command = SESSION_LIST /\ ~Falsy(session_base_path)
    THEN [ ret |-> TRUE,
           out |-> SessionListLines(
                       list_available_sessions(session_base_path, F,
                                               ListingOrder(session_base_path, F), 0).ret,
                       session_id, session_base_path, F) ]
    ELSE [ret |-> FALSE, out |-> <<>>]

handle_session_commands(command, session_id, session_base_path, F) ==
    IF command = SESSION_INFO /\ ~Falsy(session_id)
    THEN [ ret |-> TRUE,
           out |-> SessionInfoLines(get_session_info(session_id, session_base_path, F, FALSE).ret) ]
    ELSE IF command = SESSION_LIST /\ ~Falsy(session_base_path)
    THEN [ ret |-> TRUE,
           out |-> SessionListLines(
                       list_available_sessions(session_base_path, F,
                                               ListingOrder(session_base_path, F), 0).ret,
                       session_id, session_base_path, F) ]
    ELSE IF StartsWith(command, SESSION_SPACE)
    THEN [ ret |-> TRUE,
           out |-> IF ~Falsy(session_base_path)
                   THEN << Printed("Available session commands:", NONE, FALSE),
                           Printed("!session info", NONE, FALSE),
                           Printed("!session list", NONE, FALSE) >>
                   ELSE <<Printed("Error: Session management not enabled.", NONE, FALSE)>> ]
    ELSE [ret |-> FALSE, out |-> <<>>]

\* user_input.lower() in ["exit", "quit"]
IsExit_case_sensitive(user_input) == user_input \in {EXIT, QUIT}

IsExit(user_input) == Lower(user_input) \in {EXIT, QUIT}

\* Nothing raised in the turn.
NoFault == [at |-> "none", kind |-> "none"]

\* What the welcome tool returns: a status and, with success, the text.
Welcome(status, text) == [status |-> status, text |-> text]

NoWelcome == Welcome("none", <<>>)

NoTurn ==
    [ read |-> "none", raisedAt |-> "none", kind |-> "none", goodbye |-> 0, errors |-> 0,
      force_stops |-> 0, shell |-> 0, agent |-> 0, steps |-> <<>>, welcome |-> NoWelcome,
      base |-> NONE ]

NoCfg ==
    [ knowledge_base_id |-> NONE, session_id |-> NONE, session_base_path |-> NONE,
      session_manager |-> FALSE, is_resuming |-> FALSE ]

\* execute_interactive_mode is not running.
ReplIdle ==
    [ pc |-> "off", cfg |-> NoCfg, welcomed |-> FALSE, history |-> FALSE, lines |-> <<>>,
      agent |-> <<>>, shell |-> <<>>, retrieved |-> <<>>, stored |-> <<>>, handled |-> <<>>,
      out |-> <<>>, goodbye |-> 0, errors |-> 0, force_stops |-> 0, turns |-> 0,
      raises |-> 0, last |-> NoTurn, system_prompt |-> NONE ]

Raised(R, at, kind) ==
    [R EXCEPT !.raises = @ + 1, !.last.raisedAt = at, !.last.kind = kind]

\* The loop's handlers with EOFError left to the general one.
LoopHandlers_eof_is_error(R, at, kind) ==
    IF kind = "KeyboardInterrupt"
    THEN [Raised(R, at, kind) EXCEPT !.goodbye = @ + 1, !.pc = "done"]
    ELSE [Raised(R, at, kind) EXCEPT !.force_stops = @ + 1, !.errors = @ + 1]

\* The loop's handlers with a general one that leaves the loop.
LoopHandlers_fatal(R, at, kind) ==
    IF kind \in {"KeyboardInterrupt", "EOFError"}
    THEN [Raised(R, at, kind) EXCEPT !.goodbye = @ + 1, !.pc = "done"]
    ELSE [Raised(R, at, kind) EXCEPT !.force_stops = @ + 1, !.errors = @ + 1, !.pc = "done"]

\* except (KeyboardInterrupt, EOFError): goodbye, break;
\* except Exception: callback_handler(force_stop=True), print the error.
LoopHandlers(R, at, kind) ==
    IF kind \in {"KeyboardInterrupt", "EOFError"}
    THEN [Raised(R, at, kind) EXCEPT !.goodbye = @ + 1, !.pc = "done"]
    ELSE [Raised(R, at, kind) EXCEPT !.force_stops = @ + 1, !.errors = @ + 1]

\* A call made in the turn in progress.
Step(R, name) == [R EXCEPT !.last.steps = Append(@, name)]

\* A handle_shell_command that does not echo the command.
handle_shell_command_no_echo(R, command, fault) ==
    IF fault.at = "shell"
    THEN IF fault.kind \in {"Exception", "EOFError"}
         THEN [ Raised(R, "shell", fault.kind)
                    EXCEPT !.shell = Append(@, command), !.errors = @ + 1,
                           !.last.steps = @ \o <<"shell", "error">> ]
         ELSE LoopHandlers([ R EXCEPT !.shell = Append(@, command),
                                      !.last.steps = @ \o <<"shell">> ],
                           "shell", fault.kind)
    ELSE [R EXCEPT !.shell = Append(@, command), !.last.steps = @ \o <<"shell">>]

\* handle_shell_command: echo the command, call the shell tool; an
\* Exception (EOFError is one) is printed here, anything else reaches the
\* loop's handlers.
handle_shell_command(R, command, fault) ==
    IF fault.at = "echo" THEN LoopHandlers(Step(R, "echo"), "echo", fault.kind)
    ELSE IF fault.at = "shell"
    THEN IF fault.kind \in {"Exception", "EOFError"}
         THEN [ Raised(R, "shell", fault.kind)
                    EXCEPT !.shell = Append(@, command), !.errors = @ + 1,
                           !.last.steps = @ \o <<"echo", "shell", "error">> ]
         ELSE LoopHandlers([ R EXCEPT !.shell = Append(@, command),
                                      !.last.steps = @ \o <<"echo", "shell">> ],
                           "shell", fault.kind)
    ELSE [R EXCEPT !.shell = Append(@, command), !.last.steps = @ \o <<"echo", "shell">>]

\* Lines 85-94, given the result h of handle_session_commands.
AfterSessionCommand(R, command, h, fault) ==
    IF h.ret
    THEN [R EXCEPT !.handled = Append(@, <<command, TRUE>>), !.out = @ \o h.out]
    ELSE handle_shell_command([R EXCEPT !.handled = Append(@, <<command, FALSE>>)],
                              command, fault)

WELCOME_HEADER ==
    << "\n", "\n", "W", "e", "l", "c", "o", "m", "e", " ", "T", "e", "x", "t", " ",
       "R", "e", "f", "e", "r", "e", "n", "c", "e", ":", "\n" >>

\* Lines 98 and 115: if knowledge_base_id
Retrieves_always(cfg) == TRUE

Retrieves(cfg) == ~Falsy(cfg.knowledge_base_id)

\* A base prompt taken from the agent.
BasePrompt_of_agent(R, w) == R.system_prompt

\* Line 103: base_system_prompt = load_system_prompt()
BasePrompt(R, w) == w.base

\* Lines 104-111: the system prompt of the turn.
Spliced(base, welcome) ==
    IF welcome.status = "success" THEN base \o WELCOME_HEADER \o welcome.text ELSE base

\* Lines 98-99
Retrieved(R, user_input) ==
    IF Retrieves(R.cfg)
    THEN [Step(R, "retrieve") EXCEPT !.retrieved = Append(@, user_input)]
    ELSE R

\* Lines 101-111, the calls and the assignment.
Refreshed(R, w) ==
    [ R EXCEPT !.last.steps = @ \o <<"welcome", "load_system_prompt", "system_prompt">>,
               !.last.welcome = w.welcome, !.last.base = w.base,
               !.system_prompt = Spliced(BasePrompt(R, w), w.welcome) ]

\* Line 113
Invoked(R, user_input) == [Step(R, "agent") EXCEPT !.agent = Append(@, user_input)]

\* Lines 115-117
Stored(R, user_input) ==
    IF Retrieves(R.cfg)
    THEN [Step(R, "store") EXCEPT !.stored = Append(@, user_input)]
    ELSE R

\* Lines 96-117: a query for the agent.  w is what the welcome tool and
\* load_system_prompt return in this turn.
Query(R, user_input, fault, w) ==
    IF Retrieves(R.cfg) /\ fault.at = "retrieve"
    THEN LoopHandlers(Retrieved(R, user_input), "retrieve", fault.kind)
    ELSE IF fault.at = "welcome"
    THEN LoopHandlers(Step(Retrieved(R, user_input), "welcome"), "welcome", fault.kind)
    ELSE IF fault.at = "load_system_prompt"
    THEN LoopHandlers([ Retrieved(R, user_input)
                            EXCEPT !.last.steps = @ \o <<"welcome", "load_system_prompt">>,
                                   !.last.welcome = w.welcome ],
                      "load_system_prompt", fault.kind)
    ELSE IF fault.at = "agent"
    THEN LoopHandlers(Invoked(Refreshed(Retrieved(R, user_input), w), user_input),
                      "agent", fault.kind)
    ELSE IF Retrieves(R.cfg) /\ fault.at = "store"
    THEN LoopHandlers(Stored(Invoked(Refreshed(Retrieved(R, user_input), w), user_input),
                             user_input),
                      "store", fault.kind)
    ELSE Stored(Invoked(Refreshed(Retrieved(R, user_input), w), user_input), user_input)

\* Lines 81-117: what the loop does with a line.
Dispatch(R, user_input, fault, F, w) ==
    IF IsExit(user_input) THEN [R EXCEPT !.goodbye = @ + 1, !.pc = "done"]
    ELSE IF StartsWith(user_input, <<BANG>>)
    THEN IF fault.at = "session_cmd" THEN LoopHandlers(R, "session_cmd", fault.kind)
         ELSE AfterSessionCommand(R, Strip(Tail(user_input)),
                                  handle_session_commands(Strip(Tail(user_input)),
                                                          R.cfg.session_id,
                                                          R.cfg.session_base_path, F),
                                  fault)
    ELSE IF Strip(user_input) # <<>> THEN Query(R, user_input, fault, w)
    ELSE R

\* The state at the start of a turn, the counters kept for comparison.
BeginTurn(R, kind) ==
    [ R EXCEPT !.turns = @ + 1,
               !.last = [ read |-> kind, raisedAt |-> "none", kind |-> "none",
                          goodbye |-> R.goodbye, errors |-> R.errors,
                          force_stops |-> R.force_stops, shell |-> Len(R.shell),
                          agent |-> Len(R.agent), steps |-> <<>>, welcome |-> NoWelcome,
                          base |-> NONE ] ]

\* One iteration of the while loop of execute_interactive_mode: rd is what
\* get_user_input does (returns a line or raises), fault what is raised
\* afterwards, w what the welcome tool and load_system_prompt return.
Turn(R, rd, fault, F, w) ==
    IF rd.kind # "line" THEN LoopHandlers(BeginTurn(R, rd.kind), "read", rd.kind)
    ELSE Dispatch([BeginTurn(R, "line") EXCEPT !.lines = Append(@, rd.line)],
                  rd.line, fault, F, w)

(***************************************************************************)
(* strands.py: main, and list_sessions_command of session_utils.py.  args  *)
(* is the parsed command line (NONE for a flag that is not given), E the   *)
(* environment variables.  The result lists the calls main makes, in       *)
(* order, each with the values it passes.                                  *)
(***************************************************************************)
Called(fn, a, b) == [fn |-> fn, a |-> a, b |-> b]

list_sessions_command(session_base_path, F) ==
    IF Falsy(session_base_path)
    THEN <<Printed("Error: Session management not enabled.", NONE, FALSE)>>
    ELSE SessionListLines(list_available_sessions(session_base_path, F,
                                                  ListingOrder(session_base_path, F), 0).ret,
                          NONE, session_base_path, F)

\* " ".join(args.query)
RECURSIVE Join(_)
Join(words) ==
    IF words = <<>> THEN <<>>
    ELSE IF Len(words) = 1 THEN words[1]
    ELSE words[1] \o <<" ">> \o Join(Tail(words))

\* The calls made and the call that raised.
Ran(calls, raisedAt) == [calls |-> calls, raisedAt |-> raisedAt]

\* An execute_command_mode that reports an exception and carries on.
execute_command_mode_catches(query, knowledge_base_id, fault) ==
    Ran((IF ~Falsy(knowledge_base_id)
         THEN <<Called("retrieve", query, knowledge_base_id)>> ELSE <<>>)
        \o (IF ~Falsy(knowledge_base_id) /\ fault = "retrieve"
            THEN <<>> ELSE <<Called("agent", query, NONE)>>)
        \o (IF ~Falsy(knowledge_base_id)
            THEN <<Called("store_conversation_in_kb", query, knowledge_base_id)>>
            ELSE <<>>),
        "none")

\* execute_command_mode: fault names the call that raises, if any.  Nothing
\* here catches: the first exception ends the function.
execute_command_mode(query, knowledge_base_id, fault) ==
    IF ~Falsy(knowledge_base_id)
    THEN IF fault = "retrieve"
         THEN Ran(<<Called("retrieve", query, knowledge_base_id)>>, "retrieve")
         ELSE IF fault = "agent"
         THEN Ran(<< Called("retrieve", query, knowledge_base_id),
                     Called("agent", query, NONE) >>, "agent")
         ELSE Ran(<< Called("retrieve", query, knowledge_base_id),
                     Called("agent", query, NONE),
                     Called("store_conversation_in_kb", query, knowledge_base_id) >>,
                  "none")
    ELSE Ran(<<Called("agent", query, NONE)>>, IF fault = "agent" THEN "agent" ELSE "none")

\* Lines 195-199: the mode main runs.  The interactive loop is modelled
\* by Turn; here it contributes no calls.
RunMode(args, knowledge_base_id, fault) ==
    IF args.query # <<>> THEN execute_command_mode(Join(args.query), knowledge_base_id, fault)
    ELSE Ran(<<>>, "none")

\* Lines 176-199, given the result s of setup_session_management and the
\* result m of the mode.
Startup(args, session_base_path, knowledge_base_id, s, m) ==
    IF s.raised # "none"
    THEN [ pc |-> "raised", raisedAt |-> "setup_session_management",
           calls |-> << Called("load_model", NONE, NONE),
                        Called("load_system_prompt", NONE, NONE),
                        Called("get_tools", NONE, NONE),
                        Called("setup_session_management", args.session_id, session_base_path) >>,
           out |-> <<>>, fs |-> s.fs, session_base_path |-> session_base_path,
           knowledge_base_id |-> knowledge_base_id, session_manager |-> FALSE ]
    ELSE [ pc |-> IF m.raisedAt # "none" THEN "raised" ELSE "exited",
           raisedAt |-> m.raisedAt,
           calls |-> << Called("load_model", NONE, NONE),
                        Called("load_system_prompt", NONE, NONE),
                        Called("get_tools", NONE, NONE),
                        Called("setup_session_management", args.session_id, session_base_path),
                        Called("Agent", s.ret.manager.session_id, NONE),
                        IF args.query # <<>>
                        THEN Called("execute_command_mode", knowledge_base_id, NONE)
                        ELSE Called("execute_interactive_mode", knowledge_base_id,
                                    session_base_path) >> \o m.calls,
           out |-> <<>>, fs |-> s.fs, session_base_path |-> session_base_path,
           knowledge_base_id |-> knowledge_base_id,
           session_manager |-> s.ret.manager.present ]

\* Lines 165-171, the listing.
Listing(session_base_path, F) ==
    [ pc |-> "exited", raisedAt |-> "none",
      calls |-> <<Called("list_sessions_command", session_base_path, NONE)>>,
      out |-> list_sessions_command(session_base_path, F), fs |-> F,
      session_base_path |-> session_base_path, knowledge_base_id |-> NONE,
      session_manager |-> FALSE ]

\* A main that does not look at --list-sessions.
main_no_listing(args, E, F, denied, generated, reported, persist, fault) ==
    Startup(args, Or(args.session_path, E.STRANDS_SESSION_PATH),
            Or(args.knowledge_base_id, E.STRANDS_KNOWLEDGE_BASE_ID),
            setup_session_management(args.session_id,
                                     Or(args.session_path, E.STRANDS_SESSION_PATH),
                                     F, denied, generated, reported, persist),
            RunMode(args, Or(args.knowledge_base_id, E.STRANDS_KNOWLEDGE_BASE_ID), fault))

main(args, E, F, denied, generated, reported, persist, fault) ==
    IF args.list_sessions
    THEN Listing(Or(args.session_path, E.STRANDS_SESSION_PATH), F)
    ELSE Startup(args, Or(args.session_path, E.STRANDS_SESSION_PATH),
                 Or(args.knowledge_base_id, E.STRANDS_KNOWLEDGE_BASE_ID),
                 setup_session_management(args.session_id,
                                          Or(args.session_path, E.STRANDS_SESSION_PATH),
                                          F, denied, generated, reported, persist),
                 RunMode(args, Or(args.knowledge_base_id, E.STRANDS_KNOWLEDGE_BASE_ID),
                         fault))

(***************************************************************************)
(* utils/mcp_utils.py: initialize_mcp_connections.  A configuration is a   *)
(* record of the keys the function reads; NONE is a key that is missing,   *)
(* "absent" a missing transport or auto_load_tools.  An outcome says what  *)
(* the mcp_client tool does in the connect call and in the load_tools      *)
(* call: return the status success, return another status, or raise.       *)
(***************************************************************************)
MCP_PREFIX == <<"m", "c", "p", "_">>
UNKNOWN == <<"u", "n", "k", "n", "o", "w", "n">>
SERVER == <<"s", "e", "r", "v", "e", "r">>

\* The position of the first element of s that is in the set cs, or 0.
FindAny(s, cs) ==
    IF \E i \in 1..Len(s) : s[i] \in cs
    THEN CHOOSE i \in 1..Len(s) : s[i] \in cs /\ \A j \in 1..(i - 1) : s[j] \notin cs
    ELSE 0

\* The position of the last element of s that is in the set cs, or 0.
RFindAny(s, cs) ==
    IF \E i \in 1..Len(s) : s[i] \in cs
    THEN CHOOSE i \in 1..Len(s) : s[i] \in cs /\ \A j \in (i + 1)..Len(s) : s[j] \notin cs
    ELSE 0

\* str.replace(old, "_") for the one-character strings in olds.
Underscored(s, olds) == [i \in 1..Len(s) |-> IF s[i] \in olds THEN "_" ELSE s[i]]

\* os.path.basename
Basename(path) == SubSeq(path, RFindAny(path, {"/"}) + 1, Len(path))

SchemeChars ==
    { "a", "b", "c", "d", "e", "f", "g", "h", "i", "j", "k", "l", "m", "n", "o", "p", "q",
      "r", "s", "t", "u", "v", "w", "x", "y", "z", "+", "-", ".",
      "0", "1", "2", "3", "4", "5", "6", "7", "8", "9" }

\* urlsplit: the text after the scheme and its colon.
AfterScheme(url) ==
    IF /\ FindAny(url, {":"}) > 1
       /\ \A j \in 1..(FindAny(url, {":"}) - 1) : LowerChar(url[j]) \in SchemeChars
    THEN SubSeq(url, FindAny(url, {":"}) + 1, Len(url))
    ELSE url

\* urlsplit: the network location, present after "//" only.
Netloc(url) ==
    IF StartsWith(AfterScheme(url), <<"/", "/">>)
    THEN LET rest == SubSeq(AfterScheme(url), 3, Len(AfterScheme(url)))
             end == FindAny(rest, {"/", "?", "#"})
         IN  IF end = 0 THEN rest ELSE SubSeq(rest, 1, end - 1)
    ELSE <<>>

\* urlparse(url).hostname: the network location without user information
\* and port, in lower case; None when empty.
Hostname(url) ==
    LET hostinfo == SubSeq(Netloc(url), RFindAny(Netloc(url), {"@"}) + 1, Len(Netloc(url)))
        colon == FindAny(hostinfo, {":"})
        host == IF colon = 0 THEN hostinfo ELSE SubSeq(hostinfo, 1, colon - 1)
    IN  IF host = <<>> THEN NONE ELSE Lower(host)

\* dict.get(key, default) for a key that is missing.
Get(value, default) == IF value = NONE THEN default ELSE value

\* Lines 95-112: the connection id generated for the entry at position i.
AutoId(config, i) ==
    IF config.transport \in {"absent", "stdio"}
    THEN MCP_PREFIX \o Underscored(Basename(Get(config.command, UNKNOWN)), {"."})
         \o <<"_">> \o Decimal(i)
    ELSE MCP_PREFIX \o Underscored(Or(Hostname(Get(config.server_url, <<>>)), SERVER), {".", "-"})
         \o <<"_">> \o Decimal(i)

\* Lines 92-115
ConnectionId(config, i) ==
    IF Falsy(config.connection_id) THEN AutoId(config, i) ELSE config.connection_id

\* Lines 119-134: the parameters of the connect call.
ConnectParams(config, connection_id) ==
    [ connection_id |-> connection_id, transport |-> config.transport,
      command |-> IF config.transport = "stdio" THEN config.command ELSE NONE,
      server_url |-> IF config.transport = "sse" THEN config.server_url ELSE NONE ]

\* results[key] = value
Put(results, key, value) ==
    [k \in DOMAIN results \cup {key} |-> IF k = key THEN value ELSE results[k]]

\* Line 143: the tools are loaded after a successful connect.
LoadsTools(config, outcome) == outcome.connect = "success" /\ config.auto_load_tools # "false"

\* Lines 117-159: the value stored for an entry.
Connected(config, outcome) ==
    outcome.connect = "success" /\ ~(LoadsTools(config, outcome) /\ outcome.load = "raise")

\* Lines 91-159: one iteration of the loop, for the entry at position
\* Len(M.ids).
McpEntry(M, config, outcome) ==
    [ M EXCEPT !.ids = Append(@, ConnectionId(config, Len(M.ids))),
               !.results = Put(@, ConnectionId(config, Len(M.ids)), Connected(config, outcome)),
               !.connects = Append(@, ConnectParams(config, ConnectionId(config, Len(M.ids)))),
               !.loads = IF LoadsTools(config, outcome)
                         THEN Append(@, ConnectionId(config, Len(M.ids))) ELSE @ ]

RECURSIVE McpLoop(_, _, _)
McpLoop(M, configs, outcomes) ==
    IF configs = <<>> THEN M
    ELSE McpLoop(McpEntry(M, Head(configs), Head(outcomes)), Tail(configs), Tail(outcomes))

\* initialize_mcp_connections(configs, agent): the mapping returned, the
\* connection id of every entry, and the calls of the mcp_client tool.
initialize_mcp_connections(configs, outcomes) ==
    McpLoop([ pc |-> "returned", configs |-> configs, outcomes |-> outcomes, ids |-> <<>>,
              results |-> <<>>, connects |-> <<>>, loads |-> <<>> ],
            configs, outcomes)

(***************************************************************************)
(* State machine.  fs is the filesystem; call is the last completed call:  *)
(* its arguments, what it returned or raised, whether it logged a warning, *)
(* the filesystem accesses it made, the calls it made to session_exists    *)
(* (sx), to create_session_manager (csm) and to the backend constructor    *)
(* (ctor), whether the OS refused an access of get_session_info's walk or  *)
(* the mkdir (inj), and the filesystem it started from (pre).              *)
(***************************************************************************)
Idle ==
    [ op |-> "idle", session_id |-> NONE, base_path |-> NONE, ret |-> FALSE,
      raised |-> "none", logged |-> FALSE, trace |-> <<>>, sx |-> <<>>, csm |-> <<>>,
      ctor |-> <<>>, inj |-> FALSE, pre |-> EmptyFs ]

\* os.environ: the variables main and store_in_kb read.
NoEnviron == [STRANDS_KNOWLEDGE_BASE_ID |-> NONE, STRANDS_SESSION_PATH |-> NONE]

NoCall ==
    [ op |-> "idle", content |-> NONE, title |-> NONE, knowledge_base_id |-> NONE,
      now |-> 0, ret |-> ErrorResult(EMPTY_CONTENT), pre |-> <<>> ]

\* No call of store_in_kb made, no thread started.
KbIdle == [threads |-> <<>>, last |-> NoCall, calls |-> 0, errors |-> 0]

NoArgs ==
    [ query |-> <<>>, knowledge_base_id |-> NONE, session_id |-> NONE,
      session_path |-> NONE, list_sessions |-> FALSE ]

\* main has not run.
ProcIdle ==
    [ pc |-> "off", args |-> NoArgs, fault |-> "none", raisedAt |-> "none", calls |-> <<>>,
      out |-> <<>>, pre |-> EmptyFs,
      session_base_path |-> NONE, knowledge_base_id |-> NONE, session_manager |-> FALSE ]

\* initialize_mcp_connections has not run.
McpIdle ==
    [ pc |-> "off", configs |-> <<>>, outcomes |-> <<>>, ids |-> <<>>, results |-> <<>>,
      connects |-> <<>>, loads |-> <<>> ]

Init ==
    /\ fs = EmptyFs /\ call = Idle
    /\ environ = NoEnviron /\ kb = KbIdle /\ repl = ReplIdle /\ proc = ProcIdle /\ mcp = McpIdle /\ clock \in Timestamps

Root == <<BASE_DIR>>

SessionDir(session_id) == Append(Root, SESSION_PREFIX \o session_id)

BACKEND_ID == <<"n", "o", "r", "m">>

\* Entry names of the base directory: three valid sessions, a hidden id, an
\* empty id and a name that lacks the underscore of the prefix.
EntryNames ==
    { SESSION_PREFIX \o <<"a">>, SESSION_PREFIX \o <<"a", "b">>, SESSION_PREFIX \o <<"b">>,
      SESSION_PREFIX \o <<".", "a">>, SESSION_PREFIX,
      <<"s", "e", "s", "s", "i", "o", "n", "a">> }

\* Names in a messages directory: two message files, a file with another
\* suffix, a hidden file whose whole name is ".json", and a directory whose
\* name ends in ".json".
MessageFileNames ==
    { <<"0", ".", "j", "s", "o", "n">>, <<"1", ".", "j", "s", "o", "n">>,
      <<"1", ".", "t", "x", "t">>, <<".", "j", "s", "o", "n">> }
MessageDirNames == { <<"d", ".", "j", "s", "o", "n">> }

Both(paths) == paths \X {"dir", "file"}

\* What the environment can create, as <<path, kind>>.
StoreNodes ==
    Both({Root} \cup {Append(Root, n) : n \in EntryNames})
    \cup {<<<<BASE_DIR, n, SESSION_JSON>>, "file">> : n \in EntryNames}
    \cup {<<Append(SessionDir(<<"a">>), SESSION_JSON), "dir">>}

SetupNodes ==
    Both({Root, SessionDir(<<"a">>)})
    \cup {<<Append(SessionDir(<<"a">>), SESSION_JSON), "file">>}

InfoNodes ==
    LET sd == SessionDir(<<"a">>)
        ad == Append(sd, AGENTS)
        x == Append(ad, <<"x">>)
        y == Append(ad, <<"d", "e", "f">>)
    IN  {<<Root, "dir">>, <<sd, "dir">>, <<Append(sd, SESSION_JSON), "file">>,
         <<Append(sd, <<"0", ".", "j", "s", "o", "n">>), "file">>,
         <<Append(y, MESSAGES), "dir">>,
         <<y \o <<MESSAGES, <<"0", ".", "j", "s", "o", "n">>>>, "file">>}
        \cup Both({ad, x, y, Append(x, MESSAGES)})
        \cup {<<x \o <<MESSAGES, m>>, "file">> : m \in MessageFileNames}
        \cup {<<x \o <<MESSAGES, m>>, "dir">> : m \in MessageDirNames}

Parent(p) == SubSeq(p, 1, Len(p) - 1)

WithinBounds(F) ==
    /\ Cardinality(Children(F, Root)) <= MaxEntries
    /\ \A d \in F.dirs : Name(d) = MESSAGES => Cardinality(Children(F, d)) <= MaxMsgs

\* Something outside the program (the SDK backend, the user) creates a file
\* or a directory.
EnvCreate(p, kind) ==
    /\ call.op = "idle"
    /\ ~Exists(fs, p)
    /\ p = Root \/ IsDir(fs, Parent(p))
    /\ fs' = IF kind = "dir" THEN [fs EXCEPT !.dirs = @ \cup {p}]
             ELSE [fs EXCEPT !.files = @ \cup {p}]
    /\ WithinBounds(fs')
    /\ call' = Idle
    /\ UNCHANGED <<environ, kb, repl, proc, mcp, clock>>

SessionExistsCall ==
    \E session_id \in SessionIds, base_path \in BasePaths :
        LET r == session_exists(session_id, base_path, fs)
        IN  /\ call.op = "idle"
            /\ call' = [ Idle EXCEPT !.op = "session_exists", !.session_id = session_id,
                                     !.base_path = base_path, !.ret = r.ret,
                                     !.trace = r.trace, !.pre = fs ]
            /\ UNCHANGED <<fs, environ, kb, repl, proc, mcp, clock>>

ListCall ==
    \E base_path \in BasePaths :
        LET kids == IF ~Falsy(base_path) /\ PathOK[base_path]
                    THEN Children(fs, <<RenderedPath[base_path]>>) ELSE {}
        IN  \E order \in Perms(kids), fail \in 0..(Cardinality(kids) + 1) :
                LET r == list_available_sessions(base_path, fs, order, fail)
                IN  /\ call.op = "idle"
                    /\ call' = [ Idle EXCEPT !.op = "list_available_sessions",
                                             !.base_path = base_path, !.ret = r.ret,
                                             !.raised = r.raised, !.logged = r.logged,
                                             !.trace = r.trace, !.pre = fs ]
                    /\ UNCHANGED <<fs, environ, kb, repl, proc, mcp, clock>>

GetSessionInfoCall ==
    \E session_id \in SessionIds, base_path \in BasePaths, fail \in BOOLEAN :
        LET r == get_session_info(session_id, base_path, fs, fail)
        IN  /\ call.op = "idle"
            /\ call' = [ Idle EXCEPT !.op = "get_session_info", !.session_id = session_id,
                                     !.base_path = base_path, !.ret = r.ret,
                                     !.logged = r.logged, !.trace = r.trace,
                                     !.inj = fail, !.pre = fs ]
            /\ UNCHANGED <<fs, environ, kb, repl, proc, mcp, clock>>

\* The environment's choices during create_session_manager: whether the OS
\* refuses the mkdir (drawn when the directory is missing), the id
\* generate_session_id produces (drawn when it is called), the id the handle
\* reports (NONE: the one it was given), whether the backend writes the
\* session to disk.
Denials(base_path) ==
    IF ~Falsy(base_path) /\ PathOK[base_path] /\ ~Exists(fs, <<RenderedPath[base_path]>>)
    THEN BOOLEAN ELSE {FALSE}

Generations(called) == IF called THEN GeneratedIds ELSE {NONE}

CreateSessionManagerCall ==
    \E session_id \in SessionIds, base_path \in BasePaths :
        \E denied \in Denials(base_path), generated \in Generations(session_id = NONE),
           reported \in {NONE, BACKEND_ID}, persist \in BOOLEAN :
            LET r == create_session_manager(session_id, base_path, fs, denied, generated,
                                            reported, persist)
            IN  /\ call.op = "idle"
                /\ WithinBounds(r.fs)
                /\ fs' = r.fs
                /\ call' = [ Idle EXCEPT !.op = "create_session_manager",
                                         !.session_id = session_id, !.base_path = base_path,
                                         !.ret = r.ret, !.raised = r.raised,
                                         !.trace = r.trace, !.ctor = r.ctor, !.inj = denied,
                                         !.pre = fs ]
                /\ UNCHANGED <<environ, kb, repl, proc, mcp, clock>>

\* The state after a call of setup_session_management with result r.
SetupStep(session_id, base_path, denied, r) ==
    /\ call.op = "idle"
    /\ WithinBounds(r.fs)
    /\ fs' = r.fs
    /\ call' = [ Idle EXCEPT !.op = "setup_session_management",
                             !.session_id = session_id, !.base_path = base_path,
                             !.ret = r.ret, !.raised = r.raised,
                             !.trace = r.trace, !.sx = r.sx, !.csm = r.csm,
                             !.ctor = r.ctor, !.inj = denied, !.pre = fs ]
    /\ UNCHANGED <<environ, kb, repl, proc, mcp, clock>>

SetupCall ==
    \E session_id \in SessionIds, base_path \in BasePaths :
        \E denied \in Denials(base_path), generated \in Generations(Falsy(session_id)),
           reported \in {NONE, BACKEND_ID}, persist \in BOOLEAN :
            SetupStep(session_id, base_path, denied,
                      setup_session_management(session_id, base_path, fs, denied,
                                               generated, reported, persist))

\* The caller takes the result.
Return == call.op # "idle" /\ call' = Idle /\ UNCHANGED <<fs, environ, kb, repl, proc, mcp, clock>>

StoreEnv == \E n \in StoreNodes : EnvCreate(n[1], n[2])
SetupEnv == \E n \in SetupNodes : EnvCreate(n[1], n[2])
InfoEnv == \E n \in InfoNodes : EnvCreate(n[1], n[2])

StoreNext == StoreEnv \/ SessionExistsCall \/ ListCall \/ Return
SetupNext == SetupEnv \/ CreateSessionManagerCall \/ SetupCall \/ Return
InfoNext == InfoEnv \/ GetSessionInfoCall \/ Return

StoreSpec == Init /\ [][StoreNext]_vars
SetupSpec == Init /\ [][SetupNext]_vars
InfoSpec == Init /\ [][InfoNext]_vars

(***************************************************************************)
(* The knowledge-base tool: the foreground calls store_in_kb, the threads  *)
(* it started run _store_in_kb_background one client call at a time, in    *)
(* any interleaving, and a thread may never get to run.                    *)
(***************************************************************************)
Contents == { NONE, <<>>, <<" ", "\t", "\n">>, <<" ", "a", "\n">> }
Titles == { NONE, <<"t">> }
KnowledgeBaseIds == { NONE, <<>>, <<"k", "b">> }
EnvKnowledgeBaseIds == { NONE, <<>>, <<"e", "n", "v">> }
\* The ids of the data sources: the knowledge store gives every data
\* source a non-empty id.
DataSourceIds == { <<"d">>, <<"e">> }
SourceTypes == {"CUSTOM", "S3", "WEB"}

RECURSIVE SeqsUpTo(_, _)
SeqsUpTo(S, n) ==
    IF n = 0 THEN {<<>>}
    ELSE SeqsUpTo(S, n - 1)
         \cup {Append(q, x) : q \in {r \in SeqsUpTo(S, n - 1) : Len(r) = n - 1}, x \in S}

DataSourceLists == SeqsUpTo(DataSourceIds, MaxSources)

\* What the client library may do in the call the thread makes next.
Replies(t) ==
    CASE t.pc = "new" -> {Reply(FALSE, FALSE, <<>>, "none")}
      [] t.pc \in {"client", "ingest"} -> {Reply(r, FALSE, <<>>, "none") : r \in BOOLEAN}
      [] t.pc = "list" ->
            {Reply(TRUE, FALSE, <<>>, "none"), Reply(FALSE, TRUE, <<>>, "none")}
            \cup {Reply(FALSE, FALSE, ids, "none") : ids \in DataSourceLists}
      [] t.pc \in {"scan", "fallback"} ->
            {Reply(TRUE, FALSE, <<>>, "none"), Reply(FALSE, TRUE, <<>>, "none")}
            \cup {Reply(FALSE, FALSE, <<>>, ty) : ty \in SourceTypes}
      [] OTHER -> {}

KbInit ==
    /\ fs = EmptyFs /\ call = Idle /\ repl = ReplIdle /\ proc = ProcIdle /\ mcp = McpIdle /\ clock \in Timestamps
    /\ kb = KbIdle
    /\ \E v \in EnvKnowledgeBaseIds : environ = [NoEnviron EXCEPT !.STRANDS_KNOWLEDGE_BASE_ID = v]

\* The process state store_in_kb and the worker can see.
ProcessState == [getenv |-> environ.STRANDS_KNOWLEDGE_BASE_ID, threads |-> kb.threads]

StoreInKbStep(content, title, knowledge_base_id, now, r) ==
    /\ kb.calls < MaxCalls
    /\ kb' = [ threads |-> r.threads,
               last |-> [ op |-> "store_in_kb", content |-> content, title |-> title,
                          knowledge_base_id |-> knowledge_base_id, now |-> now,
                          ret |-> r.ret, pre |-> kb.threads ],
               calls |-> kb.calls + 1,
               errors |-> kb.errors + (IF r.ret.status = "error" THEN 1 ELSE 0) ]
    /\ UNCHANGED <<fs, call, environ, repl, proc, mcp, clock>>

StoreInKbCall ==
    \E content \in Contents, title \in Titles, knowledge_base_id \in KnowledgeBaseIds,
       now \in Timestamps :
        StoreInKbStep(content, title, knowledge_base_id, now,
                      store_in_kb(content, title, knowledge_base_id, ProcessState, now))

\* A started thread is scheduled and runs up to its next client call.
WorkerRun ==
    \E j \in 1..Len(kb.threads) :
        /\ kb.threads[j].pc # "done"
        /\ \E reply \in Replies(kb.threads[j]) :
               kb' = [ kb EXCEPT !.threads[j] =
                           _store_in_kb_background(kb.threads[j],
                                                   environ.STRANDS_KNOWLEDGE_BASE_ID,
                                                   clock, reply) ]
        /\ UNCHANGED <<fs, call, environ, repl, proc, mcp, clock>>

KbNext == StoreInKbCall \/ WorkerRun

KbSpec == KbInit /\ [][KbNext]_vars

(***************************************************************************)
(* The interactive loop: execute_interactive_mode is started with some     *)
(* configuration and then takes one turn per line, until it leaves the     *)
(* loop.                                                                   *)
(***************************************************************************)
InputLines ==
    { EXIT, <<"Q", "u", "i", "t">>, <<" ", "e", "x", "i", "t">>, <<"h", "i">>,
      <<>>, <<" ", "\t">>,
      <<"!", "l", "s">>,
      <<"!">> \o SESSION_INFO, <<"!", " ">> \o SESSION_LIST \o <<" ">>,
      <<"!">> \o SESSION_SPACE \o <<"x">>,
      <<"!", "s", "e", "s", "s", "i", "o", "n">> }

Reads ==
    {[kind |-> "line", line |-> l] : l \in InputLines}
    \cup {[kind |-> k, line |-> <<>>] : k \in {"KeyboardInterrupt", "EOFError", "Exception"}}

\* The calls of a turn that may raise.  EOFError after the read is drawn for the
\* shell tool, where it is handled differently from the read.
FaultPoints == {"session_cmd", "echo", "shell", "retrieve", "welcome", "agent", "store"}

Faults ==
    {NoFault, [at |-> "shell", kind |-> "EOFError"]}
    \cup {[at |-> a, kind |-> k] : a \in FaultPoints, k \in {"KeyboardInterrupt", "Exception"}}

Configs ==
    { NoCfg,
      [NoCfg EXCEPT !.knowledge_base_id = <<"k", "b">>],
      [NoCfg EXCEPT !.session_base_path = BASE_DIR],
      [NoCfg EXCEPT !.session_id = <<"a">>],
      [ knowledge_base_id |-> <<"k", "b">>, session_id |-> <<"a">>,
        session_base_path |-> BASE_DIR, session_manager |-> TRUE, is_resuming |-> TRUE ] }

\* Sessions on disk: a with its marker, b without.
ReplFs ==
    [ dirs |-> {Root, SessionDir(<<"a">>), SessionDir(<<"b">>)},
      files |-> {Append(SessionDir(<<"a">>), SESSION_JSON)} ]

BASE_PROMPT == <<"B">>

\* The welcome tool returns a text and load_system_prompt the prompt the
\* agent was made with.
SameTools == [welcome |-> Welcome("success", <<"w">>), base |-> BASE_PROMPT]

ReplInit ==
    /\ fs = ReplFs /\ call = Idle /\ environ = NoEnviron /\ kb = KbIdle /\ proc = ProcIdle /\ mcp = McpIdle /\ clock \in Timestamps
    /\ repl = ReplIdle

\* Lines 66-75: the welcome text (the welcome tool succeeds) and the
\* history of a resumed session.
ReplStart ==
    /\ repl.pc = "off"
    /\ \E cfg \in Configs :
           repl' = [ ReplIdle EXCEPT !.pc = "read", !.cfg = cfg, !.welcomed = TRUE,
                                     !.system_prompt = BASE_PROMPT,
                                     !.history = /\ cfg.is_resuming /\ cfg.session_manager
                                                 /\ ~Falsy(cfg.session_id) ]
    /\ UNCHANGED <<fs, call, environ, kb, proc, mcp, clock>>

ReplTurn ==
    /\ repl.pc = "read"
    /\ repl.turns < MaxLines
    /\ \E rd \in Reads, fault \in Faults : repl' = Turn(repl, rd, fault, fs, SameTools)
    /\ UNCHANGED <<fs, call, environ, kb, proc, mcp, clock>>

ReplNext == ReplStart \/ ReplTurn

ReplSpec == ReplInit /\ [][ReplNext]_vars

(***************************************************************************)
(* The turns of the loop in detail: the welcome tool may fail or return    *)
(* one text or another, load_system_prompt one prompt or another, and any  *)
(* call of the turn may raise.                                             *)
(***************************************************************************)
ChatConfigs == {NoCfg, [NoCfg EXCEPT !.knowledge_base_id = <<"k", "b">>]}

TurnLines ==
    {EXIT, <<"h", "i">>, <<" ", "h", "i", " ">>, <<"!", " ", "l", "s", " ">>, <<" ">>}

TurnReads ==
    {[kind |-> "line", line |-> l] : l \in TurnLines}
    \cup {[kind |-> "KeyboardInterrupt", line |-> <<>>]}

TurnFaults ==
    {NoFault, [at |-> "shell", kind |-> "EOFError"]}
    \cup {[at |-> a, kind |-> k] :
             a \in {"echo", "shell", "retrieve", "welcome", "load_system_prompt", "agent",
                    "store"},
             k \in {"KeyboardInterrupt", "Exception"}}

Tools ==
    [ welcome : { Welcome("error", <<>>), Welcome("success", <<>>), Welcome("success", <<"w">>),
                  Welcome("success", <<"v">>) },
      base : {BASE_PROMPT, <<"P">>} ]

TurnInit ==
    /\ fs = ReplFs /\ call = Idle /\ environ = NoEnviron /\ kb = KbIdle
    /\ proc = ProcIdle /\ mcp = McpIdle /\ clock \in Timestamps
    /\ repl = ReplIdle

TurnStart ==
    /\ repl.pc = "off"
    /\ \E cfg \in ChatConfigs :
           repl' = [ ReplIdle EXCEPT !.pc = "read", !.cfg = cfg, !.welcomed = TRUE,
                                     !.system_prompt = BASE_PROMPT ]
    /\ UNCHANGED <<fs, call, environ, kb, proc, mcp, clock>>

TurnStep ==
    /\ repl.pc = "read"
    /\ repl.turns < MaxLines
    /\ \E rd \in TurnReads, fault \in TurnFaults, w \in Tools :
           repl' = Turn(repl, rd, fault, fs, w)
    /\ UNCHANGED <<fs, call, environ, kb, proc, mcp, clock>>

TurnNext == TurnStart \/ TurnStep

TurnSpec == TurnInit /\ [][TurnNext]_vars

(***************************************************************************)
(* The interactive loop with its background writes: main runs the loop     *)
(* with a knowledge base configured or not, every answered query is handed *)
(* to store_conversation_in_kb, the threads started run in any             *)
(* interleaving with the loop, and when the loop is left main returns and  *)
(* the interpreter exits: it waits for the threads that are not daemons    *)
(* and abandons the daemons.                                               *)
(***************************************************************************)
ChatLines == {EXIT, <<"h", "i">>, <<"!", "l", "s">>}

\* What get_user_input does; once MaxCalls threads have been started the
\* user asks no further question.
ChatReads ==
    {[kind |-> "line", line |-> l] :
        l \in IF Len(kb.threads) < MaxCalls THEN ChatLines ELSE ChatLines \ {<<"h", "i">>}}
    \cup {[kind |-> "KeyboardInterrupt", line |-> <<>>]}

ChatFaults == {NoFault, [at |-> "agent", kind |-> "Exception"]}

\* The agent's answer.
RESPONSE == <<"o", "k">>

ChatInit ==
    /\ fs = ReplFs /\ call = Idle /\ environ = NoEnviron /\ kb = KbIdle
    /\ proc = ProcIdle /\ mcp = McpIdle /\ clock \in Timestamps
    /\ repl = ReplIdle

ChatStart ==
    /\ proc.pc = "off"
    /\ \E cfg \in ChatConfigs :
           repl' = [ ReplIdle EXCEPT !.pc = "read", !.cfg = cfg, !.welcomed = TRUE,
                                     !.system_prompt = BASE_PROMPT ]
    /\ proc' = [proc EXCEPT !.pc = "running"]
    /\ UNCHANGED <<fs, call, environ, kb, mcp, clock>>

\* The turn has called store_conversation_in_kb and the call has returned.
HandsOff(R, R2) == Len(R2.stored) > Len(R.stored) /\ R2.last.raisedAt = "none"

ChatStep(user_input, R2, r) ==
    /\ repl' = R2
    /\ kb' = IF HandsOff(repl, R2)
             THEN [ threads |-> r.threads,
                    last |-> [ op |-> "store_in_kb",
                               content |-> USER_LABEL \o user_input
                                           \o ASSISTANT_LABEL \o RESPONSE,
                               title |-> CONVERSATION_LABEL \o user_input,
                               knowledge_base_id |-> repl.cfg.knowledge_base_id,
                               now |-> 17, ret |-> r.ret, pre |-> kb.threads ],
                    calls |-> kb.calls + 1,
                    errors |-> kb.errors + (IF r.ret.status = "error" THEN 1 ELSE 0) ]
             ELSE kb
    /\ UNCHANGED <<fs, call, environ, proc, mcp, clock>>

ChatTurn ==
    /\ proc.pc = "running"
    /\ repl.pc = "read"
    /\ repl.turns < MaxLines
    /\ \E rd \in ChatReads, fault \in ChatFaults :
           ChatStep(rd.line, Turn(repl, rd, fault, fs, SameTools),
                    store_conversation_in_kb(rd.line, RESPONSE, repl.cfg.knowledge_base_id,
                                             ProcessState, 17))

\* A thread of the running process is scheduled.
ChatWorkerRun == proc.pc = "running" /\ WorkerRun

\* Lines 199-203: the loop is left, main returns and the interpreter
\* exits, after the threads that are not daemons.
ProcessExit ==
    /\ proc.pc = "running"
    /\ repl.pc = "done"
    /\ \A j \in 1..Len(kb.threads) : ~kb.threads[j].daemon => kb.threads[j].pc = "done"
    /\ proc' = [proc EXCEPT !.pc = "terminated"]
    /\ UNCHANGED <<fs, call, environ, kb, repl, mcp, clock>>

ChatNext == ChatStart \/ ChatTurn \/ ChatWorkerRun \/ ProcessExit

ChatSpec == ChatInit /\ [][ChatNext]_vars

(***************************************************************************)
(* The MCP connections: initialize_mcp_connections is called with some     *)
(* list of configurations, and the mcp_client tool answers each call.      *)
(***************************************************************************)
McpConfig(connection_id, transport, command, server_url, auto_load_tools) ==
    [ connection_id |-> connection_id, transport |-> transport, command |-> command,
      server_url |-> server_url, auto_load_tools |-> auto_load_tools ]

McpConfigs ==
    { McpConfig(<<"s">>, "stdio", <<"n">>, NONE, "absent"),
      McpConfig(<<"s">>, "sse", NONE, <<"h", ":", "/", "/", "a", ".", "b">>, "true"),
      McpConfig(MCP_PREFIX \o <<"n", "_", "1">>, "stdio", <<"n">>, NONE, "false"),
      McpConfig(NONE, "stdio", <<"n">>, NONE, "absent"),
      McpConfig(NONE, "absent", <<"/", "b", "/", "n", ".", "p", "y">>, NONE, "false"),
      McpConfig(NONE, "stdio", NONE, NONE, "true"),
      McpConfig(NONE, "sse", NONE,
                <<"h", ":", "/", "/", "u", "@", "X", "-", "b", ".", "c", ":", "8", "/", "p">>,
                "absent"),
      McpConfig(<<>>, "sse", NONE, NONE, "absent") }

\* What the mcp_client tool does for an entry; the load_tools call is made
\* after a successful connect only.
McpOutcomes ==
    { [connect |-> "error", load |-> "none"], [connect |-> "raise", load |-> "none"] }
    \cup {[connect |-> "success", load |-> l] : l \in {"success", "error", "raise"}}

McpInit ==
    /\ fs = EmptyFs /\ call = Idle /\ environ = NoEnviron /\ kb = KbIdle /\ repl = ReplIdle
    /\ proc = ProcIdle /\ mcp = McpIdle /\ clock \in Timestamps

InitializeMcp ==
    /\ mcp.pc = "off"
    /\ \E n \in 0..MaxConfigs :
           \E configs \in [1..n -> McpConfigs], outcomes \in [1..n -> McpOutcomes] :
               mcp' = initialize_mcp_connections(configs, outcomes)
    /\ UNCHANGED <<fs, call, environ, kb, repl, proc, clock>>

McpNext == InitializeMcp

McpSpec == McpInit /\ [][McpNext]_vars

(***************************************************************************)
(* main: the process is started with some command line and environment on  *)
(* some filesystem, and main runs.                                         *)
(***************************************************************************)
Args ==
    [ query : {<<>>, <<<<"h", "i">>>>, <<<<"a">>, <<"b">>>>},
      knowledge_base_id : KnowledgeBaseIds,
      session_id : {NONE, <<"a">>, <<"a", "/", "b">>},
      session_path : {NONE, <<>>, BASE_DIR},
      list_sessions : BOOLEAN ]

Environs ==
    [ STRANDS_KNOWLEDGE_BASE_ID : EnvKnowledgeBaseIds,
      STRANDS_SESSION_PATH : {NONE, <<>>, BASE_DIR} ]

MainInit ==
    /\ call = Idle /\ kb = KbIdle /\ repl = ReplIdle /\ proc = ProcIdle /\ mcp = McpIdle /\ clock \in Timestamps
    /\ fs \in {EmptyFs, ReplFs}
    /\ environ \in Environs

\* The call of execute_command_mode that raises, if any.
CommandFaults == {"none", "retrieve", "agent"}

MainStep(args, fault, r) ==
    /\ proc.pc = "off"
    /\ fs' = r.fs
    /\ proc' = [ pc |-> r.pc, args |-> args, fault |-> fault, raisedAt |-> r.raisedAt,
                 calls |-> r.calls, out |-> r.out, pre |-> fs,
                 session_base_path |-> r.session_base_path,
                 knowledge_base_id |-> r.knowledge_base_id,
                 session_manager |-> r.session_manager ]
    /\ UNCHANGED <<call, environ, kb, repl, mcp, clock>>

MainRun ==
    \E args \in Args :
        \E denied \in Denials(Or(args.session_path, environ.STRANDS_SESSION_PATH)),
           generated \in Generations(Falsy(args.session_id)), persist \in BOOLEAN,
           fault \in CommandFaults :
            MainStep(args, fault,
                     main(args, environ, fs, denied, generated, NONE, persist, fault))

MainNext == MainRun

MainSpec == MainInit /\ [][MainNext]_vars


(***************************************************************************)
(* Properties.  The terms of the claims are stated on the filesystem and   *)
(* on the arguments, independently of the operations.                      *)
(***************************************************************************)
EndsWith(s, suf) ==
    Len(s) >= Len(suf) /\ SubSeq(s, Len(s) - Len(suf) + 1, Len(s)) = suf

\* A session id that is empty, holds a separator, "..", or NUL, begins with
\* a dot or is longer than 255 characters.
UnsafeId(s) ==
    \/ s = <<>>
    \/ \E i \in 1..Len(s) : s[i] \in {"/", "\\", "NUL"}
    \/ \E i \in 1..(Len(s) - 1) : s[i] = "." /\ s[i + 1] = "."
    \/ s[1] = "."
    \/ Len(s) > 255

\* The directory a base path denotes; every sane base path of BasePaths
\* denotes /b.
Denoted(base_path) == <<RenderedPath[base_path]>>

SaneBase(base_path) == ~Falsy(base_path) /\ PathOK[base_path]

ElementsOf(seq) == {seq[i] : i \in 1..Len(seq)}

Ascending(seq) == \A i, j \in 1..Len(seq) : i < j => StrLess(seq[i], seq[j])

\* The id an entry of the base directory stands for, when it is a
\* directory whose name is "session_" followed by a safe id.
IsSessionEntry(F, p) ==
    /\ IsDir(F, p)
    /\ StartsWith(Name(p), SESSION_PREFIX)
    /\ ~UnsafeId(SubSeq(Name(p), Len(SESSION_PREFIX) + 1, Len(Name(p))))

EntryId(p) == SubSeq(Name(p), Len(SESSION_PREFIX) + 1, Len(Name(p)))

\* C1: for a valid session id and a valid base path, session_exists is true
\* exactly when the directory session_<id> exists under the base path and
\* holds an entry session.json; a directory without the marker is reported
\* as not existing.
C1_SessionExistsIffMarker ==
    (call.op = "session_exists" /\ call.session_id # NONE
        /\ ~UnsafeId(call.session_id) /\ SaneBase(call.base_path))
    => (call.ret <=> /\ IsDir(fs, SessionDir(call.session_id))
                     /\ Exists(fs, Append(SessionDir(call.session_id), SESSION_JSON)))

C1_Witness ==
    /\ call.op = "session_exists"
    /\ call.session_id = <<"a">>
    /\ call.base_path = BASE_DIR \o <<"/">>
    /\ call.ret = TRUE

C1_WitnessNoMarker ==
    /\ call.op = "session_exists"
    /\ call.session_id = <<"a">>
    /\ call.base_path = BASE_DIR
    /\ IsDir(fs, SessionDir(<<"a">>))
    /\ call.ret = FALSE

\* C2: for an unsafe session id and any base path, session_exists returns
\* false and makes no filesystem access.
C2_UnsafeIdNoFilesystemAccess ==
    (call.op = "session_exists" /\ call.session_id # NONE /\ UnsafeId(call.session_id))
    => (call.ret = FALSE /\ call.trace = <<>>)

C2_Witness ==
    /\ call.op = "session_exists"
    /\ call.session_id = <<"a", ".", ".", "b">>
    /\ call.base_path = BASE_DIR
    /\ IsDir(fs, Root)
    /\ call.ret = FALSE
    /\ call.trace = <<>>

\* C3: setup_session_management returns is_resuming = true exactly when the
\* base path is present, an id is supplied and session_exists(id, base_path)
\* is true on the filesystem setup starts from; a supplied id goes unchanged
\* to create_session_manager, and with no id supplied create_session_manager
\* is called with None and the backend gets a generated id.
C3_ResumeIffExistsAtStart ==
    call.op = "setup_session_management"
    => /\ call.raised = "none"
          => (call.ret.is_resuming
                <=> /\ ~Falsy(call.base_path)
                    /\ ~Falsy(call.session_id)
                    /\ session_exists(call.session_id, call.base_path, call.pre).ret)
       /\ ~Falsy(call.base_path)
          => call.csm = <<<<IF Falsy(call.session_id) THEN NONE ELSE call.session_id,
                            call.base_path>>>>
       /\ (Falsy(call.session_id) /\ call.ctor # <<>>)
          => call.ctor[1][1] \in GeneratedIds

C3_Witness ==
    /\ call.op = "setup_session_management"
    /\ call.session_id = <<"a">>
    /\ call.raised = "none"
    /\ call.ret.is_resuming
    /\ call.csm = <<<<(<<"a">>), BASE_DIR>>>>

C3_WitnessCreated ==
    /\ call.op = "setup_session_management"
    /\ call.session_id = <<"a">>
    /\ call.raised = "none"
    /\ ~call.ret.is_resuming
    /\ session_exists(<<"a">>, BASE_DIR, fs).ret

\* C4: with the base path absent (None or empty) setup_session_management
\* returns (absent, absent, false) for every session id and checks no
\* existence, calls no constructor and leaves the filesystem alone.
C4_NoBasePathNoSession ==
    (call.op = "setup_session_management" /\ Falsy(call.base_path))
    => /\ call.raised = "none"
       /\ call.ret = NoSetup
       /\ call.sx = <<>>
       /\ call.csm = <<>>
       /\ call.ctor = <<>>
       /\ call.trace = <<>>
       /\ fs = call.pre

C4_Witness ==
    /\ call.op = "setup_session_management"
    /\ call.base_path = <<>>
    /\ call.session_id = <<"a">>
    /\ call.ret = NoSetup

\* C5: when setup_session_management returns a handle, the session id it
\* returns is the one the handle reports, also when that differs from the
\* requested one.
C5_ResolvedIdIsHandleId ==
    (call.op = "setup_session_management" /\ call.raised = "none"
        /\ call.ret.manager.present)
    => call.ret.session_id = call.ret.manager.session_id

C5_Witness ==
    /\ call.op = "setup_session_management"
    /\ call.raised = "none"
    /\ call.session_id = <<"a">>
    /\ call.ret.manager.present
    /\ call.ret.manager.session_id = BACKEND_ID
    /\ call.ret.session_id = BACKEND_ID

\* C6: create_session_manager with a base path that is not sane, or with a
\* supplied session id that is unsafe, returns no handle, raises nothing,
\* calls no backend constructor and leaves the filesystem as it was.
C6_RejectionHasNoEffect ==
    (call.op = "create_session_manager"
        /\ (~SaneBase(call.base_path)
            \/ (call.session_id # NONE /\ UnsafeId(call.session_id))))
    => /\ call.ret = AbsentManager
       /\ call.raised = "none"
       /\ call.ctor = <<>>
       /\ call.trace = <<>>
       /\ fs = call.pre

C6_Witness ==
    /\ call.op = "create_session_manager"
    /\ call.session_id = <<"a", "/", "b">>
    /\ call.base_path = BASE_DIR
    /\ ~Exists(fs, Root)
    /\ call.ret = AbsentManager

\* C7: a failure of the mkdir of the sessions directory during setup gives
\* an absent handle and is not raised out of setup_session_management.
C7_MkdirFailureNotRaised ==
    call.op = "setup_session_management"
    => /\ call.raised = "none"
       /\ call.inj => ~call.ret.manager.present

\* C8: without an error, list_available_sessions returns exactly the safe
\* ids s for which session_<s> is a directory directly under the base
\* path, prefix stripped, each once, ascending; session.json is not needed.
C8_ListIsSortedSessionDirs ==
    (call.op = "list_available_sessions" /\ ~call.logged)
    => /\ Ascending(call.ret)
       /\ ElementsOf(call.ret) =
            IF Falsy(call.base_path) THEN {}
            ELSE {EntryId(p) : p \in {q \in Children(fs, Denoted(call.base_path)) :
                                          IsSessionEntry(fs, q)}}

C8_Witness ==
    /\ call.op = "list_available_sessions"
    /\ ~call.logged
    /\ call.ret = <<(<<"a", "b">>), (<<"b">>)>>
    /\ ~Exists(fs, Append(SessionDir(<<"b">>), SESSION_JSON))

\* C9 as claimed: when the sessions directory is absent or an error occurs
\* at any point of the scan, the result is empty and nothing is raised.
C9_ErrorGivesEmpty ==
    (call.op = "list_available_sessions"
        /\ (call.logged \/ (SaneBase(call.base_path) /\ ~Exists(fs, Denoted(call.base_path)))))
    => (call.ret = <<>> /\ call.raised = "none")

\* The entries whose is_dir answered before the scan failed: every is_dir
\* of the trace but the last.
ScannedBeforeError(c) ==
    {c.trace[k][2] : k \in {i \in 1..(Len(c.trace) - 1) : c.trace[i][1] = "is_dir"}}

\* C9, amended: nothing is raised; the result is empty when the sessions
\* directory is absent or cannot be listed; when is_dir fails on an entry
\* the result is the ascending ids of the entries accepted before it.
C9_ErrorGivesAcceptedSoFar ==
    call.op = "list_available_sessions"
    => /\ call.raised = "none"
       /\ (SaneBase(call.base_path) /\ ~Exists(fs, Denoted(call.base_path)))
          => call.ret = <<>>
       /\ (call.logged /\ call.trace[Len(call.trace)][1] = "iterdir") => call.ret = <<>>
       /\ call.logged
          => /\ Ascending(call.ret)
             /\ ElementsOf(call.ret) =
                  {EntryId(p) : p \in {q \in ScannedBeforeError(call) : IsSessionEntry(fs, q)}}

C9_Witness ==
    /\ call.op = "list_available_sessions"
    /\ call.logged
    /\ call.ret = <<(<<"a">>)>>
    /\ IsSessionEntry(fs, SessionDir(<<"b">>))

\* The message files of a session: the regular files named <stem>.json, with
\* a non-empty stem, in agents/<agent>/messages/.
MessageFiles(F, session_dir) ==
    {f \in F.files :
        /\ Len(f) = Len(session_dir) + 4
        /\ SubSeq(f, 1, Len(session_dir)) = session_dir
        /\ f[Len(session_dir) + 1] = AGENTS
        /\ f[Len(session_dir) + 3] = MESSAGES
        /\ EndsWith(Name(f), JSON_SUFFIX)
        /\ Len(Name(f)) > Len(JSON_SUFFIX)}

\* agents and every messages entry of an agent directory are directories
\* when they exist, so the walk meets no NotADirectoryError.
WalkableLayout(F, session_dir) ==
    /\ ~IsFile(F, Append(session_dir, AGENTS))
    /\ \A a \in Children(F, Append(session_dir, AGENTS)) :
          IsDir(F, a) => ~IsFile(F, Append(a, MESSAGES))

\* C10: for a session that exists, get_session_info reports as
\* total_messages the number of regular .json files in
\* agents/<agent>/messages/ over all agents; for a session that does not
\* exist it returns absent.
C10_TotalMessagesCountsJsonFiles ==
    call.op = "get_session_info"
    => LET exists == session_exists(call.session_id, call.base_path, fs).ret
           session_dir == Append(Denoted(call.base_path), SESSION_PREFIX \o call.session_id)
       IN  /\ ~exists => ~call.ret.present
           /\ call.ret.present
              => /\ exists
                 /\ call.ret.session_id = call.session_id
                 /\ call.ret.total_messages = Cardinality(MessageFiles(fs, session_dir))
           /\ (exists /\ ~call.inj /\ WalkableLayout(fs, session_dir)) => call.ret.present

C10_Witness ==
    /\ call.op = "get_session_info"
    /\ call.ret.present
    /\ call.ret.total_messages = 2
    /\ \E f \in fs.files : Name(f) = <<"1", ".", "t", "x", "t">>
    /\ \E f \in fs.files : Len(f) = 6 /\ f[4] = <<"d", "e", "f">>


(***************************************************************************)
(* Properties of the knowledge-base tool.                                  *)
(***************************************************************************)
\* Content that is not empty after trimming: it has a character that is
\* not whitespace.
NonBlank(content) ==
    content # NONE /\ \E i \in 1..Len(content) : content[i] \notin WHITESPACE

\* A knowledge-base id is given by the parameter or by the environment.
Resolvable(knowledge_base_id, getenv) ==
    \/ (knowledge_base_id # NONE /\ Len(knowledge_base_id) > 0)
    \/ (getenv # NONE /\ Len(getenv) > 0)

StartedByLast == Len(kb.threads) = Len(kb.last.pre) + 1

\* C11: store_in_kb starts a background thread exactly when the content is
\* not empty after trimming and a knowledge-base id is given by the
\* parameter or by STRANDS_KNOWLEDGE_BASE_ID; otherwise it returns a result
\* of status error and the call starts no thread (the threads are those of
\* the calls that returned success).
C11_ThreadIffValidated ==
    /\ Len(kb.threads) = kb.calls - kb.errors
    /\ kb.last.op = "store_in_kb" =>
        /\ Len(kb.threads) \in {Len(kb.last.pre), Len(kb.last.pre) + 1}
        /\ StartedByLast <=>
               /\ NonBlank(kb.last.content)
               /\ Resolvable(kb.last.knowledge_base_id, environ.STRANDS_KNOWLEDGE_BASE_ID)
        /\ ~StartedByLast => kb.last.ret.status = "error"
        /\ StartedByLast =>
               /\ kb.last.ret.status = "success"
               /\ kb.threads[Len(kb.threads)].content = kb.last.content

\* A call with content and no knowledge-base id anywhere, after a call that
\* started a thread.
C11_Witness ==
    /\ kb.last.op = "store_in_kb" /\ kb.calls = 2 /\ Len(kb.threads) = 1
    /\ NonBlank(kb.last.content)
    /\ kb.last.knowledge_base_id = <<>>
    /\ kb.last.ret.status = "error"

\* The states a worker may be in: not yet run, ingested, refused, raised.
Outcomes(t) ==
    LET n == NewThread(t.content, t.title, t.knowledge_base_id)
    IN  { n, Finished([n EXCEPT !.ingests = 1], "info"), Finished(n, "error"),
          Caught(n, "client"), Caught([n EXCEPT !.ingests = 1], "ingest_knowledge_base_documents") }

RECURSIVE OtherRuns(_)
OtherRuns(threads) ==
    IF threads = <<>> THEN {<<>>}
    ELSE {<<o>> \o rest : o \in Outcomes(Head(threads)), rest \in OtherRuns(Tail(threads))}

C13_WorkerExceptionsCaught ==
    \A j \in 1..Len(kb.threads) :
        LET t == kb.threads[j]
        IN  /\ t.ended # "escaped"
            /\ t.raisedAt # "none" =>
                   /\ t.pc = "done" /\ t.ended = "normal"
                   /\ t.log # <<>> /\ t.log[Len(t.log)] = "error"

\* One worker has failed listing the data sources, another ingesting.
C13_Witness ==
    /\ Len(kb.threads) = 2
    /\ kb.threads[1].raisedAt = "list_data_sources"
    /\ kb.threads[2].raisedAt = "ingest_knowledge_base_documents"

RECURSIVE Ingestions(_)
Ingestions(threads) ==
    IF threads = <<>> THEN 0 ELSE Head(threads).ingests + Ingestions(Tail(threads))

\* C14: every call that passes validation starts exactly one worker, a
\* worker issues at most one ingestion call, a worker that failed or was
\* refused is over, and the ingestion calls are at most as many as the
\* validated calls (none for a call that fails validation).
C14_AtMostOnceNoRetry ==
    /\ Len(kb.threads) = kb.calls - kb.errors
    /\ Ingestions(kb.threads) <= kb.calls - kb.errors
    /\ \A j \in 1..Len(kb.threads) :
           LET t == kb.threads[j]
           IN  /\ t.ingests <= 1
               /\ (t.raisedAt # "none" \/ (t.log # <<>> /\ t.log[Len(t.log)] = "error"))
                      => t.pc = "done"
               /\ t.pc = "ingest" => t.ingests = 0

\* A worker whose one ingestion call failed, next to a rejected call.
C14_Witness ==
    /\ kb.calls = 2 /\ kb.errors = 1 /\ Len(kb.threads) = 1
    /\ kb.threads[1].pc = "done" /\ kb.threads[1].ingests = 1
    /\ kb.threads[1].raisedAt = "ingest_knowledge_base_documents"


(***************************************************************************)
(* Properties of the interactive loop.                                     *)
(***************************************************************************)
UpperChar(c) ==
    CASE c = "e" -> "E" [] c = "x" -> "X" [] c = "i" -> "I" [] c = "t" -> "T"
      [] c = "q" -> "Q" [] c = "u" -> "U" [] OTHER -> c

\* The line is the word, whatever the case of its letters.
IsWord(line, word) ==
    Len(line) = Len(word) /\ \A i \in 1..Len(word) : line[i] \in {word[i], UpperChar(word[i])}

ExitLine(line) == IsWord(line, EXIT) \/ IsWord(line, QUIT)

BlankLine(line) == \A i \in 1..Len(line) : line[i] \in WHITESPACE

BangLine(line) == Len(line) > 0 /\ line[1] = "!"

\* The lines before the first exit or quit that are queries for the agent.
RECURSIVE ExpectedQueries(_)
ExpectedQueries(lines) ==
    IF lines = <<>> \/ ExitLine(Head(lines)) THEN <<>>
    ELSE (IF BlankLine(Head(lines)) \/ BangLine(Head(lines)) THEN <<>> ELSE <<Head(lines)>>)
         \o ExpectedQueries(Tail(lines))

ExitRead == \E i \in 1..Len(repl.lines) : ExitLine(repl.lines[i])

\* C15: when no step raises, the queries passed to the agent are, in order
\* and verbatim, the lines read before the first exit/quit line
\* (case-insensitive) that are neither blank nor begin with "!"; the
\* goodbye message is rendered once when an exit/quit line is read, the
\* loop is then over and no line is read after it.
C15_AgentInvokedOncePerQuery ==
    (repl.pc # "off" /\ repl.raises = 0) =>
        /\ repl.agent = ExpectedQueries(repl.lines)
        /\ repl.goodbye = (IF ExitRead THEN 1 ELSE 0)
        /\ ExitRead <=> repl.pc = "done"
        /\ \A i \in 1..(Len(repl.lines) - 1) : ~ExitLine(repl.lines[i])
        /\ repl.turns = Len(repl.lines)

\* hi, then " exit" (a query), then Quit.
C15_Witness ==
    /\ repl.raises = 0
    /\ repl.lines = << <<"h", "i">>, <<" ", "e", "x", "i", "t">>, <<"Q", "u", "i", "t">> >>
    /\ Len(repl.agent) = 2
    /\ repl.pc = "done"

\* C16: a KeyboardInterrupt or EOFError raised by the read renders the
\* goodbye message once and ends the loop, as an exit line does; no error
\* message is printed, no progress indicator is stopped, nothing is passed
\* to the agent or the shell tool.
C16_InterruptAtReadIsExit ==
    repl.last.read \in {"KeyboardInterrupt", "EOFError"} =>
        /\ repl.pc = "done"
        /\ repl.goodbye = repl.last.goodbye + 1
        /\ repl.errors = repl.last.errors
        /\ repl.force_stops = repl.last.force_stops
        /\ Len(repl.agent) = repl.last.agent /\ Len(repl.shell) = repl.last.shell

\* End of input after one query.
C16_Witness ==
    /\ repl.last.read = "EOFError" /\ repl.turns = 2 /\ Len(repl.agent) = 1
    /\ repl.goodbye = 1 /\ repl.pc = "done"

ExceptionInTurn == repl.last.raisedAt # "none" /\ repl.last.kind = "Exception"

\* C17 as stated: every exception other than KeyboardInterrupt/EOFError
\* raised while a line is processed is caught, the progress indicators are
\* force-stopped, an error message is printed and the loop goes on.
C17_ExceptionForceStopsAndContinues ==
    ExceptionInTurn =>
        /\ repl.pc = "read"
        /\ repl.errors = repl.last.errors + 1
        /\ repl.force_stops = repl.last.force_stops + 1

\* C17, amended: such an exception is caught, an error message is printed
\* and the loop goes on; the progress indicators are force-stopped unless
\* the exception was raised by the shell tool, which handle_shell_command
\* catches itself without stopping them.
C17_ExceptionPrintedAndContinues ==
    ExceptionInTurn =>
        /\ repl.pc = "read"
        /\ repl.errors = repl.last.errors + 1
        /\ repl.goodbye = repl.last.goodbye
        /\ repl.last.raisedAt # "shell" => repl.force_stops = repl.last.force_stops + 1
        /\ repl.last.raisedAt = "shell" => repl.force_stops = repl.last.force_stops

\* The shell tool has raised in the second turn, after the agent had in the first.
C17_Witness ==
    /\ ExceptionInTurn /\ repl.last.raisedAt = "shell"
    /\ repl.turns = 2 /\ repl.errors = 2 /\ repl.force_stops = 1

\* The remainder is a session sub-command.
SessionCommand(c) ==
    \/ c = SESSION_INFO
    \/ c = SESSION_LIST
    \/ (Len(c) >= Len(SESSION_SPACE) /\ SubSeq(c, 1, Len(SESSION_SPACE)) = SESSION_SPACE)

\* The remainder of a line after "!" is removed and the rest trimmed.
Remainder(line) == Strip(SubSeq(line, 2, Len(line)))

\* C18: for a line beginning with "!" with remainder c: when c is
\* "session info", "session list" or begins with "session ",
\* handle_session_commands returns true and neither the shell tool nor the
\* agent is invoked, whatever the session id and the base path; for every
\* other c it returns false and c is passed to the shell tool.  (A turn in
\* which handle_session_commands or the echo raises passes nothing on.)
C18_SessionCommandsHandledInLoop ==
    (repl.last.read = "line" /\ BangLine(repl.lines[Len(repl.lines)])) =>
        LET c == Remainder(repl.lines[Len(repl.lines)])
        IN  /\ Len(repl.agent) = repl.last.agent
            /\ SessionCommand(c) => Len(repl.shell) = repl.last.shell
            /\ repl.last.raisedAt = "session_cmd" => Len(repl.shell) = repl.last.shell
            /\ repl.last.raisedAt # "session_cmd" =>
                   /\ repl.handled # <<>>
                   /\ repl.handled[Len(repl.handled)] = <<c, SessionCommand(c)>>
            /\ (~SessionCommand(c) /\ repl.last.raisedAt \notin {"session_cmd", "echo"}) =>
                   /\ Len(repl.shell) = repl.last.shell + 1
                   /\ repl.shell[Len(repl.shell)] = c

\* "!session x" with no session id and no base path, after "!session"
\* went to the shell tool.
C18_Witness ==
    /\ repl.cfg = NoCfg
    /\ repl.lines = << <<"!", "s", "e", "s", "s", "i", "o", "n">>,
                       <<"!">> \o SESSION_SPACE \o <<"x">> >>
    /\ repl.shell = << <<"s", "e", "s", "s", "i", "o", "n">> >>
    /\ repl.handled[2] = <<SESSION_SPACE \o <<"x">>, TRUE>>
    /\ repl.last.raisedAt = "none"


(***************************************************************************)
(* Properties of main.                                                     *)
(***************************************************************************)
CalledFns == {proc.calls[i].fn : i \in 1..Len(proc.calls)}

\* C19: with --list-sessions main makes the listing and returns: it calls
\* neither load_model nor setup_session_management nor Agent nor
\* execute_command_mode nor execute_interactive_mode, constructs no
\* session manager and leaves the filesystem as it was (a missing sessions
\* directory stays missing), whatever the other flags and the query are.
C19_ListSessionsOnly ==
    (proc.pc # "off" /\ proc.args.list_sessions) =>
        /\ proc.pc = "exited"
        /\ CalledFns = {"list_sessions_command"}
        /\ Len(proc.calls) = 1
        /\ ~proc.session_manager
        /\ fs = proc.pre

\* --list-sessions with a query, a session id and a base path from the
\* environment whose directory is missing.
C19_Witness ==
    /\ proc.pc = "exited" /\ proc.args.list_sessions
    /\ proc.args.query # <<>> /\ proc.args.session_id = <<"a">>
    /\ proc.args.session_path = NONE /\ environ.STRANDS_SESSION_PATH = BASE_DIR
    /\ proc.pre = EmptyFs /\ fs = EmptyFs
    /\ proc.out = <<Printed("No sessions found.", NONE, FALSE)>>

\* The value of a setting by flag, then environment variable, then none.
FlagThenEnv(flag, env) == IF flag # NONE THEN flag ELSE env

\* Two values of a setting are the same when equal or both without effect
\* (none or the empty string).
SameSetting(x, y) == x = y \/ (Falsy(x) /\ Falsy(y))

\* C20: the session base path and the knowledge-base id main uses are the
\* values of the flags when given, otherwise of STRANDS_SESSION_PATH and
\* STRANDS_KNOWLEDGE_BASE_ID when set, otherwise none; a value from the
\* environment never replaces one given by flag.
C20_FlagBeforeEnvironment ==
    proc.pc # "off" =>
        /\ SameSetting(proc.session_base_path,
                       FlagThenEnv(proc.args.session_path, environ.STRANDS_SESSION_PATH))
        /\ ~proc.args.list_sessions =>
               SameSetting(proc.knowledge_base_id,
                           FlagThenEnv(proc.args.knowledge_base_id,
                                       environ.STRANDS_KNOWLEDGE_BASE_ID))

(***************************************************************************)
(* Properties of the one-shot command mode.                                *)
(***************************************************************************)
\* The calls main made after entering execute_command_mode.
CommandCalls ==
    IF "execute_command_mode" \in CalledFns
    THEN SubSeq(proc.calls,
                1 + (CHOOSE i \in 1..Len(proc.calls) : proc.calls[i].fn = "execute_command_mode"),
                Len(proc.calls))
    ELSE <<>>

CountCalls(calls, fn) == Cardinality({i \in 1..Len(calls) : calls[i].fn = fn})

\* The query words of the command line as one string.
QueryText ==
    IF proc.args.query = <<<<"h", "i">>>> THEN <<"h", "i">>
    ELSE IF proc.args.query = <<<<"a">>, <<"b">>>> THEN <<"a", " ", "b">>
    ELSE <<>>

\* The call of command mode that raised in this run, if one did.
CommandRaise ==
    IF proc.fault = "agent" THEN "agent"
    ELSE IF proc.fault = "retrieve" /\ ~Falsy(proc.knowledge_base_id) THEN "retrieve"
    ELSE "none"

\* C21: in command mode an exception raised by the retrieve call or by
\* the agent leaves main (it is not caught), the call that raised was made
\* once, and store_conversation_in_kb is not called; when nothing raises
\* and a knowledge-base id is set, main calls retrieve, the agent and
\* store_conversation_in_kb, in this order and once each, with the joined
\* query; without a knowledge-base id it calls the agent only.
C21_CommandModePropagates ==
    "execute_command_mode" \in CalledFns =>
        /\ CommandRaise # "none" =>
               /\ proc.pc = "raised" /\ proc.raisedAt = CommandRaise
               /\ CountCalls(CommandCalls, "store_conversation_in_kb") = 0
               /\ CountCalls(CommandCalls, CommandRaise) = 1
               /\ CommandCalls[Len(CommandCalls)].fn = CommandRaise
        /\ (CommandRaise = "none" /\ ~Falsy(proc.knowledge_base_id)) =>
               /\ proc.pc = "exited"
               /\ CommandCalls = << Called("retrieve", QueryText, proc.knowledge_base_id),
                                    Called("agent", QueryText, NONE),
                                    Called("store_conversation_in_kb", QueryText,
                                           proc.knowledge_base_id) >>
        /\ (CommandRaise = "none" /\ Falsy(proc.knowledge_base_id)) =>
               /\ proc.pc = "exited"
               /\ CommandCalls = <<Called("agent", QueryText, NONE)>>

\* The agent raised after a retrieve with the id from the environment.
C21_Witness ==
    /\ proc.pc = "raised" /\ proc.raisedAt = "agent"
    /\ proc.args.query = <<<<"a">>, <<"b">>>>
    /\ proc.args.knowledge_base_id = NONE
    /\ proc.knowledge_base_id = <<"e", "n", "v">>
    /\ CommandCalls = << Called("retrieve", <<"a", " ", "b">>, <<"e", "n", "v">>),
                         Called("agent", <<"a", " ", "b">>, NONE) >>

\* A run of command mode in which nothing raised and the conversation
\* was handed to store_conversation_in_kb.
C21_WitnessStored ==
    /\ proc.pc = "exited" /\ proc.fault = "none"
    /\ CountCalls(CommandCalls, "store_conversation_in_kb") = 1

(***************************************************************************)
(* Properties of initialize_mcp_connections.                               *)
(***************************************************************************)
\* The connection ids of the entries are pairwise distinct.
DistinctIds == \A i, j \in 1..Len(mcp.ids) : i # j => mcp.ids[i] # mcp.ids[j]

\* The entry at position i has no connection id of its own.
AutoGenerated(i) == Falsy(mcp.configs[i].connection_id)

\* C22: when the connection ids of the entries are pairwise distinct,
\* initialize_mcp_connections makes one connect call per entry, in list
\* order, whatever the earlier calls did, and returns a mapping with
\* exactly one key per entry whose value is true iff the connect call of
\* that entry returned the status success.
C22_OneResultPerEntry ==
    (mcp.pc # "off" /\ DistinctIds) =>
        /\ Len(mcp.connects) = Len(mcp.configs)
        /\ \A i \in 1..Len(mcp.configs) : mcp.connects[i].connection_id = mcp.ids[i]
        /\ DOMAIN mcp.results = {mcp.ids[i] : i \in 1..Len(mcp.ids)}
        /\ Cardinality(DOMAIN mcp.results) = Len(mcp.configs)
        /\ \A i \in 1..Len(mcp.configs) :
               mcp.results[mcp.ids[i]] = (mcp.outcomes[i].connect = "success")

\* C23: within one list no generated connection id equals the connection
\* id of another entry, so the mapping returned has one key per entry
\* whenever the ids given in the list are pairwise distinct.
C23_GeneratedIdsCollideWithNone ==
    mcp.pc # "off" =>
        /\ \A i, j \in 1..Len(mcp.ids) : (i # j /\ AutoGenerated(i)) => mcp.ids[i] # mcp.ids[j]
        /\ (\A i, j \in 1..Len(mcp.ids) :
                (i # j /\ ~AutoGenerated(i) /\ ~AutoGenerated(j)) => mcp.ids[i] # mcp.ids[j])
           => Cardinality(DOMAIN mcp.results) = Len(mcp.configs)

(***************************************************************************)
(* Properties of the worker's choice of a data source.                     *)
(***************************************************************************)
LastLog(t) == IF t.log = <<>> THEN "none" ELSE t.log[Len(t.log)]

\* C24: a worker that has listed a non-empty sequence of data sources and
\* has met no exception issues the ingestion call iff a data source was
\* reported as CUSTOM, and then for the first data source so reported,
\* also after lookups of other data sources; when none was reported as
\* CUSTOM it issues no ingestion call and logs an error, whether it has
\* looked up one data source or several.
C24_IngestIffCustom ==
    \A j \in 1..Len(kb.threads) :
        LET t == kb.threads[j]
        IN  /\ (t.pc = "done" /\ t.lookups > 0 /\ t.raisedAt = "none") =>
                   /\ t.ingests = 1 <=> t.custom # NONE
                   /\ t.custom # NONE => (t.target = t.custom /\ LastLog(t) = "info")
                   /\ t.custom = NONE =>
                          (t.ingests = 0 /\ t.target = NONE /\ LastLog(t) = "error")
            /\ t.ingests > 0 => (t.custom # NONE /\ t.target = t.custom)
            /\ t.pc = "ingest" => (t.data_source_id = t.custom /\ t.target = t.custom)
            /\ (t.pc = "scan" /\ t.i > 1) => t.custom = NONE

\* One worker has ingested into the data source reported as CUSTOM in its
\* second lookup; another has looked up two data sources, found none
\* CUSTOM, looked up the first again and given up with an error.
C24_Witness ==
    /\ Len(kb.threads) = 2
    /\ kb.threads[1].pc = "done" /\ kb.threads[1].raisedAt = "none"
    /\ kb.threads[1].lookups = 2 /\ kb.threads[1].ingests = 1
    /\ kb.threads[1].target = <<"e">>
    /\ kb.threads[2].pc = "done" /\ kb.threads[2].raisedAt = "none"
    /\ kb.threads[2].lookups = 3 /\ kb.threads[2].ingests = 0
    /\ LastLog(kb.threads[2]) = "error"

(***************************************************************************)
(* Properties of the loop with its background writes.                      *)
(***************************************************************************)
\* A thread has been started and has not ended.
InFlight(t) == t.pc # "done"

\* C25: while a thread started for an earlier turn has not ended, the loop
\* can take its next turn and, once the loop is left, the process can
\* exit; a thread of an exited process has not been waited for.
C25_LoopNeverWaits ==
    (\E j \in 1..Len(kb.threads) : InFlight(kb.threads[j])) =>
        /\ (proc.pc = "running" /\ repl.pc = "read" /\ repl.turns < MaxLines)
               => ENABLED ChatTurn
        /\ (proc.pc = "running" /\ repl.pc = "done") => ENABLED ProcessExit

\* The process has exited after two answered queries: the first write has
\* not begun, the second has listed the data sources, and neither has made
\* its ingestion call.
C25_Witness ==
    /\ proc.pc = "terminated"
    /\ Len(repl.agent) = 2 /\ Len(kb.threads) = 2
    /\ kb.threads[1].pc = "new" /\ kb.threads[2].pc = "scan"
    /\ kb.threads[1].ingests = 0 /\ kb.threads[2].ingests = 0

(***************************************************************************)
(* Properties of the turns of the loop.                                    *)
(***************************************************************************)
LastLine == repl.lines[Len(repl.lines)]

\* The last turn read a line that is neither an exit word, nor a "!"
\* line, nor blank.
QueryTurn ==
    /\ repl.last.read = "line"
    /\ ~ExitLine(LastLine) /\ ~BangLine(LastLine) /\ ~BlankLine(LastLine)

KbConfigured == repl.cfg.knowledge_base_id \notin {NONE, <<>>}

IsPrefix(a, b) == Len(a) <= Len(b) /\ a = SubSeq(b, 1, Len(a))

StepsWithKb == <<"retrieve", "welcome", "load_system_prompt", "system_prompt", "agent", "store">>
StepsWithoutKb == <<"welcome", "load_system_prompt", "system_prompt", "agent">>

\* C26: a query turn with a knowledge-base id makes, in this order and
\* once each, the retrieve call with the line, the welcome call, the call
\* of load_system_prompt, the assignment of the system prompt, the agent
\* call with the line and the call of store_conversation_in_kb with the
\* line; an exception ends the turn after the call that raised it, so
\* that nothing is stored after a failed agent call; without a
\* knowledge-base id the turn makes neither the retrieve call nor the call
\* of store_conversation_in_kb.
C26_QueryTurnOrder ==
    QueryTurn =>
        /\ IsPrefix(repl.last.steps, IF KbConfigured THEN StepsWithKb ELSE StepsWithoutKb)
        /\ repl.last.raisedAt = "none" =>
               repl.last.steps = IF KbConfigured THEN StepsWithKb ELSE StepsWithoutKb
        /\ repl.last.raisedAt # "none" =>
               /\ repl.last.steps # <<>>
               /\ repl.last.steps[Len(repl.last.steps)] = repl.last.raisedAt
               /\ repl.last.raisedAt # "store" =>
                      \A i \in 1..Len(repl.last.steps) : repl.last.steps[i] # "store"
        /\ (\E i \in 1..Len(repl.last.steps) : repl.last.steps[i] = "agent") =>
               /\ Len(repl.agent) = repl.last.agent + 1
               /\ repl.agent[Len(repl.agent)] = LastLine
        /\ KbConfigured =>
               /\ repl.retrieved # <<>> /\ repl.retrieved[Len(repl.retrieved)] = LastLine
               /\ repl.last.raisedAt = "none" => repl.stored[Len(repl.stored)] = LastLine
        /\ ~KbConfigured => (repl.retrieved = <<>> /\ repl.stored = <<>>)

\* The second query of a session with a knowledge base, not trimmed, has
\* gone through all its steps.
C26_Witness ==
    /\ QueryTurn /\ KbConfigured /\ repl.last.raisedAt = "none"
    /\ Len(repl.agent) = 2 /\ Len(repl.stored) = 2
    /\ LastLine = <<" ", "h", "i", " ">>
    /\ repl.last.steps = StepsWithKb

\* The last turn read a "!" line that is not a session command.
ShellTurn ==
    /\ repl.last.read = "line" /\ BangLine(LastLine)
    /\ ~SessionCommand(Remainder(LastLine))

\* C27 as stated: a "!" line that is not a session command is echoed, run
\* by the shell tool with the trimmed remainder, followed by a blank line,
\* and the loop reads again; an exception of the shell tool is reported
\* and the loop reads again.
C27_EchoShellBlankLine ==
    (ShellTurn /\ repl.last.raisedAt \in {"none", "shell"}
               /\ repl.last.kind \in {"none", "Exception"}) =>
        /\ repl.pc = "read"
        /\ repl.shell[Len(repl.shell)] = Remainder(LastLine)
        /\ repl.last.raisedAt = "none" => repl.last.steps = <<"echo", "shell", "blank_line">>
        /\ repl.last.raisedAt = "shell" =>
               /\ repl.last.steps = <<"echo", "shell", "error", "blank_line">>
               /\ repl.errors = repl.last.errors + 1

\* C27 as amended: a "!" line that is not a session command is echoed and
\* run by the shell tool with the trimmed remainder, once each and in
\* this order, and the loop reads again without printing anything else;
\* an exception of the shell tool is reported and the loop reads again.
C27_EchoShell ==
    (ShellTurn /\ repl.last.raisedAt \in {"none", "shell"}
               /\ repl.last.kind \in {"none", "Exception"}) =>
        /\ repl.pc = "read"
        /\ Len(repl.shell) = repl.last.shell + 1
        /\ repl.shell[Len(repl.shell)] = Remainder(LastLine)
        /\ Len(repl.agent) = repl.last.agent
        /\ repl.last.raisedAt = "none" =>
               (repl.last.steps = <<"echo", "shell">> /\ repl.errors = repl.last.errors)
        /\ repl.last.raisedAt = "shell" =>
               /\ repl.last.steps = <<"echo", "shell", "error">>
               /\ repl.errors = repl.last.errors + 1

\* "! ls " has been run as "ls" after a failed run of it, and the loop
\* reads on.
C27_Witness ==
    /\ ShellTurn /\ repl.last.raisedAt = "none" /\ repl.pc = "read"
    /\ repl.shell = <<<<"l", "s">>, <<"l", "s">>>>
    /\ repl.errors = 1 /\ repl.turns = 2
    /\ repl.last.steps = <<"echo", "shell">>

\* The number of places at which sub occurs in s.
Occurrences(s, sub) ==
    Cardinality({i \in 1..(Len(s) - Len(sub) + 1) : SubSeq(s, i, i + Len(sub) - 1) = sub})

\* The agent has been called in the last turn.
InvokedInTurn == \E i \in 1..Len(repl.last.steps) : repl.last.steps[i] = "agent"

\* C28: at every call of the agent in the loop its system prompt is the
\* prompt load_system_prompt has returned in this turn, followed by the
\* header and the welcome text of this turn when the welcome call
\* succeeded, and by nothing otherwise: it holds the header once or not at
\* all, whatever the earlier turns have put into it.
C28_PromptNotAccumulated ==
    InvokedInTurn =>
        /\ repl.last.welcome.status = "success" =>
               /\ repl.system_prompt
                      = repl.last.base \o WELCOME_HEADER \o repl.last.welcome.text
               /\ Occurrences(repl.system_prompt, WELCOME_HEADER) = 1
        /\ repl.last.welcome.status # "success" =>
               /\ repl.system_prompt = repl.last.base
               /\ Occurrences(repl.system_prompt, WELCOME_HEADER) = 0

\* The third call of the agent, with a welcome text.
C28_Witness ==
    /\ InvokedInTurn /\ Len(repl.agent) = 3
    /\ repl.last.welcome = Welcome("success", <<"v">>)
    /\ repl.system_prompt = <<"P">> \o WELCOME_HEADER \o <<"v">>

\* The second call of the agent, the welcome call having failed.
C28_WitnessFailed ==
    /\ InvokedInTurn /\ Len(repl.agent) = 2
    /\ repl.last.welcome.status = "error"
    /\ repl.system_prompt = BASE_PROMPT

(***************************************************************************)
(* The knowledge-base tool in a process whose environment and clock move:  *)
(* between any two steps of the foreground and of the threads the variable *)
(* STRANDS_KNOWLEDGE_BASE_ID may be set anew or removed, and the second    *)
(* that time.strftime reports may pass.                                    *)
(***************************************************************************)
MaxDocs == 1
MaxClock == 18

DocContents == { <<>>, <<" ", "a", "\n">> }
DocKnowledgeBaseIds == { NONE, <<"k", "b">> }
DocEnvKnowledgeBaseIds == { NONE, <<"e", "n", "v">>, <<"a", "l", "t">> }

DocInit ==
    /\ fs = EmptyFs /\ call = Idle /\ repl = ReplIdle /\ proc = ProcIdle /\ mcp = McpIdle
    /\ kb = KbIdle
    /\ clock \in Timestamps
    /\ \E v \in DocEnvKnowledgeBaseIds :
           environ = [NoEnviron EXCEPT !.STRANDS_KNOWLEDGE_BASE_ID = v]

DocStoreInKbCall ==
    /\ kb.calls < MaxDocs
    /\ \E content \in DocContents, title \in Titles,
          knowledge_base_id \in DocKnowledgeBaseIds :
           StoreInKbStep(content, title, knowledge_base_id, clock,
                         store_in_kb(content, title, knowledge_base_id, ProcessState, clock))

\* os.environ["STRANDS_KNOWLEDGE_BASE_ID"] is assigned or deleted.
SetEnviron ==
    /\ \E v \in DocEnvKnowledgeBaseIds \ {environ.STRANDS_KNOWLEDGE_BASE_ID} :
           environ' = [environ EXCEPT !.STRANDS_KNOWLEDGE_BASE_ID = v]
    /\ UNCHANGED <<fs, call, kb, repl, proc, mcp, clock>>

\* The second passes.
Tick ==
    /\ clock < MaxClock
    /\ clock' = clock + 1
    /\ UNCHANGED <<fs, call, environ, kb, repl, proc, mcp>>

DocNext == DocStoreInKbCall \/ WorkerRun \/ SetEnviron \/ Tick

DocSpec == DocInit /\ [][DocNext]_vars

(***************************************************************************)
(* Properties of the session id returned without a handle.                 *)
(***************************************************************************)
\* C29: whenever setup_session_management returns no session manager (no
\* base path, a base path that fails validation, or a session id that
\* fails validation), it returns no session id and is_resuming = False.
C29_NoHandleNoSessionId ==
    (call.op = "setup_session_management" /\ call.raised = "none"
        /\ ~call.ret.manager.present)
    => (call.ret.session_id = NONE /\ ~call.ret.is_resuming)

(***************************************************************************)
(* Properties of the document a worker submits.                            *)
(***************************************************************************)
\* The thread started by the last call of store_in_kb.
Started == kb.threads[Len(kb.threads)]

\* The last call of store_in_kb returned success and the thread it started
\* has called ingest_knowledge_base_documents.
Submitted ==
    /\ kb.last.op = "store_in_kb"
    /\ kb.last.ret.status = "success"
    /\ Started.request # NoRequest

\* C30: for a store_in_kb call that returned success, the document the
\* worker submits goes to the knowledge base and carries the title that
\* the success result reported, whatever the interleaving of the worker
\* with the foreground, with changes of STRANDS_KNOWLEDGE_BASE_ID and with
\* the clock.
C30_WorkerSubmitsWhatWasReported ==
    Submitted => /\ Started.request.knowledgeBaseId = kb.last.ret.content[3]
                 /\ Started.request.title = kb.last.ret.content[2]

====
